---- MODULE Spec2Model ----
(***************************************************************************)
(* Verification model of the vibingu backend's AI orchestration core:     *)
(*   - the per-model concurrency limiter and the retry/fallback gateway    *)
(*     (app/services/ai_client.py) with its two direct users of the        *)
(*     limiter (data_extractor._call_ai, image_classifier._ai_classify),   *)
(*   - the ingestion pipeline (app/routers/feed.py),                       *)
(*   - the streaming chat endpoint (app/routers/chat.py),                  *)
(*   - the token store (app/routers/auth.py), the record endpoints of      *)
(*     app/routers/feed.py and the vector index (app/services/rag.py).     *)
(***************************************************************************)
EXTENDS Integers, Sequences, FiniteSets, TLC

(***************************************************************************)
(* Bounds of the model                                                     *)
(***************************************************************************)
\* concurrent logical calls and injected upstream failures, limiter runs
NumCalls == 5
MaxFaults == 1
\* concurrent logical calls and injected upstream failures, retry runs
NumRetryCalls == 2
MaxRetryFaults == 5
\* ingestion requests served, regenerations, tags the tagger's model returns
MaxRequests == 1
MaxRegenerations == 1
MaxAiTags == 9
\* utterances sent to the streaming chat endpoint, token deltas of a reply
MaxUtterances == 2
MaxTokens == 2
\* logins answered, ticks of the clock, restarts of the process
MaxLogins == 1
MaxClock == 2
MaxRestarts == 1

(***************************************************************************)
(* Configuration (app/config.py) and the limiter's static tables           *)
(***************************************************************************)
vision_model == "glm-4.6v"
text_model == "glm-4.7"
smart_model == "glm-4.7"
simple_vision_model == "glm-4.6v-flash"
simple_text_model == "glm-4.7-flash"
embedding_model == "embedding-3"
\* a model name the limit table does not list
custom_model == "custom-model"

Models ==
  {vision_model, text_model, simple_vision_model, simple_text_model,
   embedding_model, custom_model}

MODEL_LIMITS ==
  [m \in {"glm-4.6v", "glm-4.6v-flash", "glm-4.6v-flashx", "glm-4.7",
          "glm-4.7-flash", "glm-4.7-flashx", "glm-4.5", "glm-4-flash",
          "glm-4-air", "embedding-3"} |->
     CASE m = "glm-4.6v" -> 10
       [] m = "glm-4.6v-flash" -> 1
       [] m = "glm-4.6v-flashx" -> 3
       [] m = "glm-4.7" -> 3
       [] m = "glm-4.7-flash" -> 1
       [] m = "glm-4.7-flashx" -> 3
       [] m = "glm-4.5" -> 10
       [] m = "glm-4-flash" -> 200
       [] m = "glm-4-air" -> 100
       [] m = "embedding-3" -> 50]

DEFAULT_LIMIT == 3

UPGRADE_MAP ==
  [m \in {"glm-4.6v-flash", "glm-4.7-flash"} |->
     IF m = "glm-4.6v-flash" THEN "glm-4.6v" ELSE "glm-4.7"]

\* MODEL_LIMITS.get(model_lower, DEFAULT_LIMIT)
Limit(m) == IF m \in DOMAIN MODEL_LIMITS THEN MODEL_LIMITS[m] ELSE DEFAULT_LIMIT

NoModel == "none"

\* the mutant: no model has an upgrade target
UpgradeNone(m) == NoModel

\* UPGRADE_MAP.get(model.lower())
Upgrade(m) == IF m \in DOMAIN UPGRADE_MAP THEN UPGRADE_MAP[m] ELSE NoModel

\* AIClient._get_fallback_model
_get_fallback_model(m) ==
  CASE m = vision_model -> simple_vision_model
    [] m = text_model -> simple_text_model
    [] m = smart_model -> simple_text_model
    [] OTHER -> NoModel

max_retries == 3
\* a budget one attempt too long
max_total_attempts_plus_one == max_retries + 3
max_total_attempts == max_retries + 2
base_delay == 1
rate_limit_delay == 5
max_delay == 30

\* texts of the errors the provider raises, by the code they carry
UpstreamErrors == {"429", "500", "401"}

\* a classification that retries every error
_is_retryable_error_always(e) == TRUE
\* AIClient._is_retryable_error
_is_retryable_error(e) == e \in {"429", "1302", "500", "502", "503", "504"}

is_rate_limit(e) == e \in {"429", "1302"}

Min(a, b) == IF a < b THEN a ELSE b
Max(a, b) == IF a > b THEN a ELSE b

\* delay = min(base * 2 ** (total_attempts - 1), max_delay)
Backoff(e, attempts) ==
  Min((IF is_rate_limit(e) THEN rate_limit_delay ELSE base_delay) * 2^(attempts - 1),
      max_delay)

(***************************************************************************)
(* State                                                                   *)
(***************************************************************************)
VARIABLES
  semaphores,   \* ModelConcurrencyLimiter._semaphores: model -> free permits
  calls,        \* the frames of the logical calls
  ledger,       \* TokenUsage table: the number of rows of each model
  faults        \* upstream failures injected so far

gwvars == <<semaphores, calls, ledger, faults>>

GatewayKinds == {"chat", "vision", "embed"}
Kinds == GatewayKinds \cup {"extract", "classify"}

IdleCall ==
  [pc |-> "idle", kind |-> "none", model |-> NoModel,
   requested_model |-> NoModel, actual_model |-> NoModel,
   total_attempts |-> 0, has_fallen_back |-> FALSE, allow_fallback |-> FALSE,
   invocations |-> 0, delay |-> 0, last_error |-> "none", error_code |-> "none",
   message |-> <<>>]

InitCalls(n) ==
  /\ semaphores = <<>>
  /\ calls = [c \in 1..n |-> IdleCall]
  /\ ledger = [m \in Models |-> 0]
  /\ faults = 0

\* a lookup that installs a fresh semaphore every time
_get_semaphore_always_new(sems, m) ==
  [x \in DOMAIN sems \cup {m} |-> IF x = m THEN Limit(m) ELSE sems[x]]
\* ModelConcurrencyLimiter._get_semaphore: the map after the lookup
_get_semaphore(sems, m) ==
  IF m \in DOMAIN sems THEN sems ELSE sems @@ (m :> Limit(m))

\* an acquire that takes no permit
SemAcquireNone(sems, m) == sems
\* asyncio.Semaphore.acquire having succeeded on model m
SemAcquire(sems, m) == [sems EXCEPT ![m] = @ - 1]

\* ModelConcurrencyLimiter.release
release(sems, m) ==
  IF m \in DOMAIN sems THEN [sems EXCEPT ![m] = @ + 1] ELSE sems

\* token_tracker.record_usage: one row of model m is added
record_usage(led, m) == [led EXCEPT ![m] = @ + 1]

(***************************************************************************)
(* The gateway: AIClient._execute_with_retry with chat_completion /        *)
(* get_embedding around it, and the limiter's two direct users             *)
(***************************************************************************)
\* the frame of a logical call that has ended: what is left is the error it
\* raised to its caller, if any (its code and what its message is built from)
Finished(f, code, msg) ==
  [IdleCall EXCEPT !.pc = "done", !.error_code = code, !.message = msg]

\* a release on the model that was asked for
ReleasedRequestedModel(f) == f.requested_model
\* the model whose permit the finally clause releases
ReleasedModel(f) == f.actual_model

\* acquire_with_upgrade is entered for model m: its semaphore is looked up
EnterAcquire(f, m) ==
  [f EXCEPT !.pc = "acquire1", !.requested_model = m, !.actual_model = NoModel,
            !.delay = 0]

\* the permit is held and func(model=actual_model) is dispatched upstream
Dispatch(f, m) ==
  [f EXCEPT !.pc = "running", !.actual_model = m, !.invocations = @ + 1]

\* chat_completion / vision_completion / get_embedding (allow_fallback=False)
\* / _call_ai / _ai_classify is called
Start(c, k, m) ==
  /\ calls[c].pc = "idle"
  /\ calls' = [calls EXCEPT ![c] =
       EnterAcquire([IdleCall EXCEPT !.kind = k, !.model = m,
                                     !.allow_fallback = (k # "embed")], m)]
  /\ semaphores' = _get_semaphore(semaphores, m)
  /\ UNCHANGED <<ledger, faults>>

\* wait_for(sem.acquire(), 1.0) on the requested model succeeds
AcquireRequested(c) ==
  LET f == calls[c] IN
  /\ f.pc = "acquire1"
  /\ semaphores[f.requested_model] > 0
  /\ semaphores' = SemAcquire(semaphores, f.requested_model)
  /\ calls' = [calls EXCEPT ![c] = Dispatch(f, f.requested_model)]
  /\ UNCHANGED <<ledger, faults>>

\* the 1 s wait times out: the upgrade target is tried if there is one
TimeoutRequested(c) ==
  LET f == calls[c]
      up == Upgrade(f.requested_model) IN
  /\ f.pc = "acquire1"
  /\ semaphores[f.requested_model] = 0
  /\ IF up # NoModel
       THEN /\ calls' = [calls EXCEPT ![c].pc = "acquireUp"]
            /\ semaphores' = _get_semaphore(semaphores, up)
       ELSE /\ calls' = [calls EXCEPT ![c].pc = "acquire2"]
            /\ UNCHANGED semaphores
  /\ UNCHANGED <<ledger, faults>>

\* acquire(upgrade, timeout) succeeds
AcquireUpgrade(c) ==
  LET f == calls[c]
      up == Upgrade(f.requested_model) IN
  /\ f.pc = "acquireUp"
  /\ semaphores[up] > 0
  /\ semaphores' = SemAcquire(semaphores, up)
  /\ calls' = [calls EXCEPT ![c] = Dispatch(f, up)]
  /\ UNCHANGED <<ledger, faults>>

\* acquire(upgrade, timeout) times out: back to the requested model
TimeoutUpgrade(c) ==
  LET f == calls[c] IN
  /\ f.pc = "acquireUp"
  /\ semaphores[Upgrade(f.requested_model)] = 0
  /\ calls' = [calls EXCEPT ![c].pc = "acquire2"]
  /\ UNCHANGED <<semaphores, ledger, faults>>

\* acquire(model, timeout) on the requested model succeeds
AcquireAgain(c) ==
  LET f == calls[c] IN
  /\ f.pc = "acquire2"
  /\ semaphores[f.requested_model] > 0
  /\ semaphores' = SemAcquire(semaphores, f.requested_model)
  /\ calls' = [calls EXCEPT ![c] = Dispatch(f, f.requested_model)]
  /\ UNCHANGED <<ledger, faults>>

\* acquire_with_upgrade returns (False, model): the caller raises
TimeoutAgain(c) ==
  LET f == calls[c] IN
  /\ f.pc = "acquire2"
  /\ semaphores[f.requested_model] = 0
  /\ calls' = [calls EXCEPT ![c] = Finished(f, "CONCURRENCY_LIMIT", <<>>)]
  /\ UNCHANGED <<semaphores, ledger, faults>>

\* the model chat_completion / vision_completion / get_embedding pass to
\* record_usage: their own `model` argument
GatewayLedgerModel(f) == f.model

\* the upstream call of a gateway call returns: the permit is released in the
\* finally clause, then the caller records the usage (a failing ledger write
\* is logged and swallowed)
GatewayReturn(c, hasUsage, ledgerOk) ==
  LET f == calls[c] IN
  /\ f.pc = "running"
  /\ f.kind \in GatewayKinds
  /\ semaphores' = release(semaphores, ReleasedModel(f))
  /\ ledger' = IF hasUsage /\ ledgerOk
                 THEN record_usage(ledger, GatewayLedgerModel(f))
                 ELSE ledger
  /\ calls' = [calls EXCEPT ![c] =
       Finished(f, "none", <<>>)]
  /\ UNCHANGED faults

\* a fallback that is taken after the first failure already
FallbackTakenEarly(f, attempts) ==
  /\ f.allow_fallback
  /\ ~f.has_fallen_back
  /\ _get_fallback_model(f.requested_model) # NoModel
  /\ _get_fallback_model(f.requested_model) # f.requested_model

\* total_attempts >= 2 and allow_fallback and not has_fallen_back, with a
\* fallback that differs from the requested model
FallbackTaken(f, attempts) ==
  /\ attempts >= 2
  /\ f.allow_fallback
  /\ ~f.has_fallen_back
  /\ _get_fallback_model(f.requested_model) # NoModel
  /\ _get_fallback_model(f.requested_model) # f.requested_model

\* the upstream call of a gateway call raises e: the except clause
GatewayRaise(c, e) ==
  LET f == calls[c]
      attempts == f.total_attempts + 1
      g == [f EXCEPT !.total_attempts = attempts, !.last_error = e] IN
  /\ f.pc = "running"
  /\ f.kind \in GatewayKinds
  /\ faults' = faults + 1
  /\ UNCHANGED ledger
  /\ IF ~_is_retryable_error(e)
       THEN \* raise AIClientError(UNRETRYABLE); finally releases
            /\ semaphores' = release(semaphores, ReleasedModel(f))
            /\ calls' = [calls EXCEPT ![c] = Finished(g, "UNRETRYABLE", <<e>>)]
       ELSE IF FallbackTaken(f, attempts)
       THEN \* continue: finally releases, the loop re-enters the acquire
            LET fb == _get_fallback_model(f.requested_model) IN
            IF attempts < max_total_attempts
              THEN /\ semaphores' = _get_semaphore(release(semaphores, ReleasedModel(f)), fb)
                   /\ calls' = [calls EXCEPT ![c] =
                        EnterAcquire([g EXCEPT !.has_fallen_back = TRUE], fb)]
              ELSE /\ semaphores' = release(semaphores, ReleasedModel(f))
                   /\ calls' = [calls EXCEPT ![c] =
                        Finished(g, "MAX_RETRIES_EXCEEDED", <<attempts, e>>)]
       ELSE IF attempts >= max_total_attempts
       THEN \* break: finally releases, then MAX_RETRIES_EXCEEDED is raised
            /\ semaphores' = release(semaphores, ReleasedModel(f))
            /\ calls' = [calls EXCEPT ![c] =
                 Finished(g, "MAX_RETRIES_EXCEEDED", <<attempts, e>>)]
       ELSE \* await asyncio.sleep(delay), still inside the except clause:
            \* the finally clause has not run yet
            /\ calls' = [calls EXCEPT ![c] =
                 [g EXCEPT !.pc = "sleeping", !.delay = Backoff(e, attempts)]]
            /\ UNCHANGED semaphores

\* the backoff sleep ends: the finally clause releases the permit and the
\* loop re-enters acquire_with_upgrade
WakeUp(c) ==
  LET f == calls[c] IN
  /\ f.pc = "sleeping"
  /\ semaphores' = _get_semaphore(release(semaphores, ReleasedModel(f)), f.requested_model)
  /\ calls' = [calls EXCEPT ![c] = EnterAcquire(f, f.requested_model)]
  /\ UNCHANGED <<ledger, faults>>

\* _call_ai / _ai_classify: the upstream call returns; _call_ai records the
\* usage under actual_model; parsing the content may still raise; the finally
\* clause releases the permit
DirectReturn(c, hasUsage, ledgerOk, parsed) ==
  LET f == calls[c]
      written == f.kind = "extract" /\ hasUsage /\ ledgerOk IN
  /\ f.pc = "running"
  /\ f.kind \notin GatewayKinds
  /\ ledger' = IF written THEN record_usage(ledger, f.actual_model) ELSE ledger
  /\ semaphores' = release(semaphores, ReleasedModel(f))
  /\ calls' = [calls EXCEPT ![c] =
       Finished(f, IF parsed THEN "none" ELSE "PARSE", <<>>)]
  /\ UNCHANGED faults

\* _call_ai / _ai_classify: the upstream call raises; the finally clause
\* releases the permit and the exception leaves the function
DirectRaise(c) ==
  LET f == calls[c] IN
  /\ f.pc = "running"
  /\ f.kind \notin GatewayKinds
  /\ faults' = faults + 1
  /\ semaphores' = release(semaphores, ReleasedModel(f))
  /\ calls' = [calls EXCEPT ![c] =
       Finished(f, "UPSTREAM", <<>>)]
  /\ UNCHANGED ledger

\* the models each kind of call is made with
StartModels(k) ==
  CASE k = "chat" -> {simple_text_model, smart_model}
    [] k = "vision" -> {simple_vision_model, custom_model}
    [] k = "embed" -> {embedding_model}
    [] k = "extract" -> {text_model}
    [] k = "classify" -> {simple_vision_model}

\* a step of acquire_with_upgrade in call c
AcquireStep(c) ==
  \/ AcquireRequested(c)
  \/ TimeoutRequested(c)
  \/ AcquireUpgrade(c)
  \/ TimeoutUpgrade(c)
  \/ AcquireAgain(c)
  \/ TimeoutAgain(c)

\* a step of the upstream call of c and of what follows it; the provider
\* fails only while its budget lasts, and `answers` are the possible answers
\* to "does the response carry usage / is the ledger written", `parses` to
\* "does the content parse"
UpstreamStep(c, budget, answers, parses) ==
  \/ \E u \in answers : \E ok \in answers : GatewayReturn(c, u, ok)
  \/ \E e \in UpstreamErrors : faults < budget /\ GatewayRaise(c, e)
  \/ WakeUp(c)
  \/ \E u \in answers : \E ok \in answers : \E p \in parses : DirectReturn(c, u, ok, p)
  \/ faults < budget /\ DirectRaise(c)

(***************************************************************************)
(* The ingestion pipeline (app/routers/feed.py) and the services it calls  *)
(***************************************************************************)
\* Python's None where a string is expected
None == "<none>"

\* models.life_stream.Category
Category ==
  {"SLEEP", "DIET", "ACTIVITY", "MOOD", "SOCIAL", "WORK", "GROWTH", "LEISURE", "SCREEN"}

\* strings a caller, the classifier's model or the extractor's model may
\* supply where a category is expected
CategoryStrings == {"WORK", "sleep", "FOOD", ""}

\* str.upper on those strings
upper(s) ==
  CASE s = "sleep" -> "SLEEP"
    [] OTHER -> s

\* `try: Category(s.upper()).value / except ValueError: pass` under
\* `if s:`; None stands for "no value assigned"
Category_value(s) ==
  IF s = None \/ s = "" THEN None
  ELSE IF upper(s) \in Category THEN upper(s) ELSE None

\* image kinds the classifier reports
ImageTypes == {"food", "screenshot"}

\* the default category each _extract_* method passes to _call_ai
DefaultCategory(image_type, has_image) ==
  IF ~has_image THEN "MOOD"
  ELSE CASE image_type = "screenshot" -> "SCREEN"
         [] image_type = "activity_screenshot" -> "ACTIVITY"
         [] image_type = "food" -> "DIET"
         [] image_type = "sleep_screenshot" -> "SLEEP"
         [] image_type = "activity_photo" -> "ACTIVITY"
         [] OTHER -> "MOOD"

\* _mock_extract's category
MockCategory(image_type) ==
  CASE image_type = "screenshot" -> "SCREEN"
    [] image_type = "food" -> "DIET"
    [] image_type \in {"activity_screenshot", "activity_photo"} -> "ACTIVITY"
    [] image_type = "sleep_screenshot" -> "SLEEP"
    [] OTHER -> "MOOD"

\* _call_ai trusting whatever category the model returned
AcceptAnyCategory(category, ai_category) ==
  IF ai_category # None /\ ai_category # "" THEN upper(ai_category) ELSE category
\* _call_ai: the model's category replaces the default only if its upper
\* case is one of the nine valid categories
AiCategory(category, ai_category) ==
  IF ai_category # None /\ ai_category # "" /\ upper(ai_category) \in Category
    THEN upper(ai_category) ELSE category

\* DIMENSIONS.keys()
DIMENSIONS ==
  {"body", "mood", "social", "work", "growth", "meaning", "digital", "leisure"}

\* Scores are floats in the code; the weights of the meaning score are
\* multiples of 0.05, so every score is held in twentieths of a point
Unit == 20
Points(n) == n * Unit

\* Python's int(v) on a float held in twentieths, then back in twentieths
int(v) == IF v >= 0 THEN Points(v \div Unit) ELSE Points(-((-v) \div Unit))

\* max(0, min(100, v))
Clamp(v) == Max(0, Min(Points(100), v))

\* The dimension_scores object of the model's JSON: a function from keys to
\* [numeric, v]; numeric is isinstance(v, (int, float))
Num(n) == [numeric |-> TRUE, v |-> n]
NotNum == [numeric |-> FALSE, v |-> 0]
NoScores == <<>>
\* too few dimensions
FewScores == [k \in {"body", "mood", "work"} |-> Num(Points(60))]
\* eight dimensions, values beyond both ends and a fraction
WildScores ==
  [k \in DIMENSIONS |->
     CASE k = "body" -> Num(Points(250))
       [] k = "mood" -> Num(-Points(20))
       [] k = "work" -> Num(Points(100) + 10)
       [] k = "social" -> Num(-10)
       [] OTHER -> Num(Points(40))]
\* an unknown key and a value that is not a number among valid ones
MixedScores ==
  [k \in {"body", "mood", "work", "growth", "leisure", "luck"} |->
     CASE k = "luck" -> Num(Points(900))
       [] k = "leisure" -> NotNum
       [] OTHER -> Num(Points(100))]

\* _call_ai: dimension_scores are cleaned (valid keys, numbers, clamped to
\* 0..100) and dropped if fewer than four remain
CleanScores(raw) ==
  LET kept == {k \in DOMAIN raw : k \in DIMENSIONS /\ raw[k].numeric}
      cleaned == [k \in kept |-> Clamp(int(raw[k].v))] IN
  IF raw = NoScores \/ Cardinality(kept) < 4 THEN NoScores ELSE cleaned

\* A tag is the sequence of its pieces: "#", "/" and the words between them
\* (the words stand for the Chinese words of the source)
Tag(cat, leaf) == <<"#", cat, "/", leaf>>

\* meta_data, as far as the rules scorer reads it; Absent / None is a key
\* the bag does not have
Absent == -1
PlainBag ==
  [duration_hours |-> Absent, quality |-> None, is_healthy |-> None,
   caffeine_mg |-> Absent, duration_minutes |-> Absent, intensity |-> None]
MetaBags ==
  { PlainBag,
    [duration_hours |-> 8, quality |-> "good", is_healthy |-> "true",
     caffeine_mg |-> 0, duration_minutes |-> 45, intensity |-> "high"],
    [duration_hours |-> 5, quality |-> "poor", is_healthy |-> "false",
     caffeine_mg |-> 80, duration_minutes |-> 10, intensity |-> "moderate"] }

\* dict.get(key, default), for a number and for a string
get_number(v, default) == IF v = Absent THEN default ELSE v
get(v, default) == IF v = None THEN default ELSE v

\* _adjust_by_metadata without its final loop
_adjust_by_metadata_raw(scores, category, meta_data, afternoon) ==
  LET sleep_body ==
        (IF 7 <= get_number(meta_data.duration_hours, 7) /\ get_number(meta_data.duration_hours, 7) <= 9
           THEN Points(20)
           ELSE IF get_number(meta_data.duration_hours, 7) < 6 THEN -Points(10) ELSE 0)
        + (IF get(meta_data.quality, "normal") = "good" THEN Points(10) ELSE 0)
      sleep_mood ==
        CASE get(meta_data.quality, "normal") = "good" -> Points(15)
          [] get(meta_data.quality, "normal") = "poor" -> -Points(10)
          [] OTHER -> 0
      diet_body ==
        (IF get(meta_data.is_healthy, "true") = "true" THEN Points(15) ELSE -Points(5))
        + (IF get_number(meta_data.caffeine_mg, 0) > 0 /\ afternoon THEN -Points(5) ELSE 0)
      act_body ==
        (IF get_number(meta_data.duration_minutes, 30) >= 30 THEN Points(20) ELSE 0)
        + (IF get(meta_data.intensity, "moderate") = "high" THEN Points(10) ELSE 0)
      act_mood == IF get_number(meta_data.duration_minutes, 30) >= 30 THEN Points(10) ELSE 0
      social == get(meta_data.quality, "good") = "good"
      delta(dim) ==
        CASE category = "SLEEP" /\ dim = "body" -> sleep_body
          [] category = "SLEEP" /\ dim = "mood" -> sleep_mood
          [] category = "DIET" /\ dim = "body" -> diet_body
          [] category = "ACTIVITY" /\ dim = "body" -> act_body
          [] category = "ACTIVITY" /\ dim = "mood" -> act_mood
          [] category = "GROWTH" /\ dim = "meaning" -> Points(20)
          [] category = "GROWTH" /\ dim = "mood" -> Points(10)
          [] category = "SOCIAL" /\ dim = "mood" /\ social -> Points(15)
          [] category = "SOCIAL" /\ dim = "meaning" /\ social -> Points(10)
          [] OTHER -> 0 IN
  [dim \in DIMENSIONS |-> scores[dim] + delta(dim)]

\* _adjust_by_metadata: the adjustments, then every score is clamped
_adjust_by_metadata(scores, category, meta_data, afternoon) ==
  [dim \in DIMENSIONS |->
     Clamp(_adjust_by_metadata_raw(scores, category, meta_data, afternoon)[dim])]

\* the tags _adjust_by_tags knows, with the dimension and the points of each
positive_tags ==
  { <<Tag("mood", "happy"), "mood", 15>>, <<Tag("mood", "content"), "mood", 10>>,
    <<Tag("mood", "calm"), "mood", 10>>, <<Tag("body", "energetic"), "body", 15>>,
    <<Tag("growth", "study"), "growth", 15>>, <<Tag("habit", "good"), "meaning", 10>>,
    <<Tag("social", "friends"), "social", 15>>, <<Tag("social", "family"), "social", 15>> }
negative_tags ==
  { <<Tag("mood", "anxious"), "mood", -15>>, <<Tag("mood", "irritable"), "mood", -10>>,
    <<Tag("mood", "down"), "mood", -20>>, <<Tag("body", "tired"), "body", -15>>,
    <<Tag("work", "procrastination"), "work", -15>>, <<Tag("habit", "bad"), "meaning", -10>> }

\* the points the tags at positions 1..n add to dimension dim
RECURSIVE TagPoints(_, _, _)
TagPoints(tags, n, dim) ==
  IF n = 0 THEN 0
  ELSE LET hits == {e \in positive_tags \cup negative_tags :
                      e[1] = tags[n] /\ e[2] = dim} IN
       TagPoints(tags, n - 1, dim)
         + (IF hits = {} THEN 0 ELSE Points((CHOOSE e \in hits : TRUE)[3]))

\* _adjust_by_tags without its final loop
_adjust_by_tags_raw(scores, tags) ==
  [dim \in DIMENSIONS |-> scores[dim] + TagPoints(tags, Len(tags), dim)]
\* _adjust_by_tags: the points of every known tag, then every score is clamped
_adjust_by_tags(scores, tags) ==
  [dim \in DIMENSIONS |-> Clamp(scores[dim] + TagPoints(tags, Len(tags), dim))]

\* _calculate_meaning_score: 0.3 growth + 0.2 social + 0.2 work
\* + 0.15 leisure + 0.15 mood, clamped
_calculate_meaning_score(scores) ==
  Min(Points(100), Max(0,
    (6 * scores["growth"] + 4 * scores["social"] + 4 * scores["work"]
       + 3 * scores["leisure"] + 3 * scores["mood"]) \div Unit))

\* category_to_dimension.get(category)
category_to_dimension(category) ==
  CASE category \in {"SLEEP", "DIET", "ACTIVITY"} -> "body"
    [] category = "MOOD" -> "mood"
    [] category = "SOCIAL" -> "social"
    [] category = "WORK" -> "work"
    [] category = "GROWTH" -> "growth"
    [] category = "SCREEN" -> "digital"
    [] category = "LEISURE" -> "leisure"
    [] OTHER -> None

\* DimensionAnalyzer.calculate_dimension_scores; every bag of the pipeline
\* is non-empty, so the metadata adjustment always runs; afternoon is
\* datetime.now().hour >= 15
calculate_dimension_scores(category, meta_data, tags, afternoon) ==
  LET base == [dim \in DIMENSIONS |->
                 IF dim = category_to_dimension(category) THEN Points(70) ELSE 0]
      by_meta == _adjust_by_metadata(base, category, meta_data, afternoon)
      by_tags == IF Len(tags) > 0 THEN _adjust_by_tags(by_meta, tags) ELSE by_meta IN
  [by_tags EXCEPT !["meaning"] = _calculate_meaning_score(by_tags)]

\* Instants are hours since an epoch; NoTime is Python's None for a datetime
NoTime == -1
Day == 24
DayOf(t) == t \div Day
\* datetime.strptime(s, "%Y-%m-%d").replace(hour=12)
Noon(day) == day * Day + 12
\* dt.replace(hour=h, minute=0)
replace_hour(t, h) == DayOf(t) * Day + h

\* The record_time / record_date string of the model's JSON, by its shape:
\* absent, "YYYY-MM-DD" (a: the day), an ISO date-time (a: the instant), one
\* of the relative phrases, "N days ago" (a: N), "last night HH:MM" (a: HH),
\* or a string no branch recognises
TimeString(shape, a) == [shape |-> shape, a |-> a]
\* DataExtractor._parse_record_time: ISO strings are taken as they are,
\* relative phrases are resolved against the client's clock, anything else
\* (and any parsing error) gives None
_parse_record_time(s, client_dt) ==
  CASE s.shape = "date" -> Noon(s.a)
    [] s.shape = "datetime" -> s.a
    [] s.shape = "today" -> client_dt
    [] s.shape = "yesterday" -> client_dt - Day
    [] s.shape = "days_ago" -> client_dt - s.a * Day
    [] s.shape = "last_night_at" -> replace_hour(client_dt - Day, s.a)
    [] OTHER -> NoTime

\* the words TaggerAgent._get_time_period gives the two hours of the model
_get_time_period(afternoon) == IF afternoon THEN "afternoon" ELSE "forenoon"

\* the tag _rule_based_tags gives each category
category_map(category) ==
  CASE category = "SLEEP" -> Tag("body", "sleep")
    [] category = "DIET" -> Tag("diet", "eating")
    [] category = "ACTIVITY" -> Tag("body", "exercise")
    [] category = "MOOD" -> Tag("mood", "record")
    [] category = "SOCIAL" -> Tag("social", "interaction")
    [] category = "WORK" -> Tag("work", "task")
    [] category = "GROWTH" -> Tag("growth", "study")
    [] category = "LEISURE" -> Tag("leisure", "fun")
    [] category = "SCREEN" -> Tag("digital", "screen")

\* The text of a submission: absent, or with five of the tagger's
\* keywords; the tags of the keywords found, in table order
Texts == {None, "keywords"}
KeywordTags(text) ==
  IF text = "keywords"
    THEN <<Tag("diet", "coffee"), Tag("body", "running"), Tag("body", "fitness"),
           Tag("leisure", "reading"), Tag("leisure", "film")>>
    ELSE <<>>

\* tags[:n]
Take(tags, n) == SubSeq(tags, 1, Min(n, Len(tags)))

\* TaggerAgent._rule_based_tags: the time tag, the category's tag, the tags
\* of the keywords in the text; at most six
_rule_based_tags(text, category, afternoon) ==
  Take(<<Tag("time", _get_time_period(afternoon))>>
         \o (IF category \in Category THEN <<category_map(category)>> ELSE <<>>)
         \o KeywordTags(text), 6)

\* What chat_completion gives the tagger as `content`: a list ("list") or an
\* object with a "tags" list ("dict") parsed from the model's JSON, anything
\* else ("text"), or an exception ("error"). The lists: nothing, well-formed
\* tags, a bare word among the tags, more tags than allowed
Content(kind, tags) == [kind |-> kind, tags |-> tags]
GoodTags == <<Tag("time", "forenoon"), Tag("body", "energetic"), Tag("mood", "happy")>>
TaggerReplies ==
  { Content("list", <<>>), Content("list", GoodTags),
    Content("list", [i \in 1..MaxAiTags |-> Tag("time", "forenoon")]),
    Content("dict", <<Tag("time", "forenoon"), <<"coffee">>>>),
    Content("text", <<>>), Content("error", <<>>) }

\* a tagger without its except clauses: a failure gives no tags
generate_tags_unguarded(content, text, category, afternoon) ==
  IF content.kind \in {"list", "dict"} THEN Take(content.tags, 8) ELSE <<>>

\* TaggerAgent.generate_tags with _ai_generate_tags: a list (or the "tags"
\* of an object) returned by the model is cut to eight tags; any other
\* content and any failure give the rule-based tags
generate_tags(content, text, category, afternoon) ==
  IF content.kind \in {"list", "dict"}
    THEN Take(content.tags, 8)
    ELSE Take(_rule_based_tags(text, category, afternoon), 8)

\* ImageClassifier.classify's result, or None
NoClassification ==
  [present |-> FALSE, image_type |-> None, should_save_image |-> FALSE,
   category_suggestion |-> None]
\* DataExtractor.extract's result, or the empty dict before phase 2
NoResult ==
  [present |-> FALSE, category |-> None, meta_data |-> PlainBag,
   dimension_scores |-> NoScores, record_time |-> NoTime, reply_text |-> None]

VARIABLES
  feed,          \* the locals of create_feed / event_generator under way
  life_stream,   \* the LifeStream table: the committed rows, by id
  response,      \* what the last request answered
  served,        \* ingestion requests received so far
  regenerated,   \* regeneration requests received so far
  sse,           \* what the reader of the last event stream has received
  collection     \* the vector collection: the ids of its entries

feedvars == <<feed, life_stream, response, served, regenerated, sse, collection>>

\* the locals of the handler under way; `classifier` is what happened inside
\* image_classifier.classify
IdleFeed ==
  [pc |-> "idle", stream |-> FALSE, text |-> None, has_image |-> FALSE,
   category_hint |-> None, now |-> 0, afternoon |-> FALSE,
   input_type |-> "TEXT", image_type |-> None, should_save_image |-> FALSE,
   image_path |-> None, classification_result |-> NoClassification,
   attempt |-> 0, extract_result |-> NoResult, failed_phases |-> <<>>,
   category |-> None, tags |-> <<>>, dimension_scores |-> NoScores,
   record_id |-> 0, classifier |-> "none"]

\* an event stream, as its reader sees it: the type of the last event, the
\* number of `result` and of `error` events, and whether the stream has ended
NoEvents == [last |-> "none", result |-> 0, error |-> 0, closed |-> FALSE]
\* the stream after `yield _sse_event(event_type, data)`
_sse_event(s, event_type) ==
  [s EXCEPT !.last = event_type,
            !.result = IF event_type = "result" THEN @ + 1 ELSE @,
            !.error = IF event_type = "error" THEN @ + 1 ELSE @]
\* a generator that goes on after the event
GoOn(s) == s
\* the stream after the generator has returned
Return(s) == [s EXCEPT !.closed = TRUE]

\* an exchange: the endpoint (other than the two ingestion endpoints) and the
\* phases its request asked for, and the answer's status, record id, failed
\* phases and listed ids
NoResponse ==
  [op |-> "none", phases |-> {}, status |-> "none", id |-> 0, failed_phases |-> <<>>,
   ids |-> <<>>]

InitFeed ==
  /\ feed = IdleFeed
  /\ life_stream = <<>>
  /\ response = NoResponse
  /\ served = 0
  /\ regenerated = 0
  /\ sse = NoEvents
  /\ collection = {}

\* POST /api/feed and /api/feed/stream, a request that fails validation:
\* neither text nor image (400), or an image above 10 MB (413); the
\* streaming form answers with a single error event
RejectFeed(stream, status) ==
  /\ feed.pc = "idle"
  /\ served < MaxRequests
  /\ served' = served + 1
  /\ response' = [NoResponse EXCEPT !.status = IF stream THEN "error" ELSE status]
  /\ sse' = IF stream THEN Return(_sse_event(NoEvents, "error")) ELSE sse
  /\ UNCHANGED <<feed, life_stream, regenerated, collection>>

\* a request that passes validation: the locals are initialised and phase 1
\* starts if there is an image, phase 2 otherwise
create_feed(stream, text, has_image, category_hint, now) ==
  /\ feed.pc = "idle"
  /\ served < MaxRequests
  /\ text # None \/ has_image
  /\ served' = served + 1
  /\ feed' = [IdleFeed EXCEPT !.pc = IF has_image THEN "classify" ELSE "extract",
                              !.stream = stream, !.text = text,
                              !.has_image = has_image,
                              !.category_hint = category_hint,
                              !.now = now, !.afternoon = (now % Day >= 15)]
  /\ response' = NoResponse
  /\ sse' = IF stream THEN NoEvents ELSE sse
  /\ UNCHANGED <<life_stream, regenerated, collection>>

\* ImageClassifier._mock_classify: the type, the decision to keep the image
\* and the category guessed from the words of the hint (the text, or
\* category_hint when there is no text)
_mock_classify(text_hint) ==
  CASE text_hint = "sleep" ->
         [present |-> TRUE, image_type |-> "sleep_screenshot",
          should_save_image |-> FALSE, category_suggestion |-> "SLEEP"]
    [] text_hint \in {"keywords", "FOOD"} ->
         [present |-> TRUE, image_type |-> "food",
          should_save_image |-> TRUE, category_suggestion |-> "DIET"]
    [] OTHER ->
         [present |-> TRUE, image_type |-> "other",
          should_save_image |-> FALSE, category_suggestion |-> "MOOD"]

\* what happens inside ImageClassifier.classify: _ai_classify returns the
\* model's answer ("ai"), or it fails and the exception is caught ("mock"),
\* or an exception leaves classify ("raise")
ClassifierOutcomes == {"ai", "mock", "raise"}
\* ImageClassifier.classify, when it returns
classify(outcome, text_hint, image_type, should_save_image, category_suggestion) ==
  IF outcome = "ai"
    THEN [present |-> TRUE, image_type |-> image_type,
          should_save_image |-> should_save_image,
          category_suggestion |-> category_suggestion]
    ELSE _mock_classify(text_hint)

\* phase 1: image_classifier.classify returns a result or raises; on an
\* exception the image is typed "other" and kept
ClassifyPhase(outcome, image_type, should_save_image, category_suggestion) ==
  LET raises == outcome = "raise"
      result == classify(outcome, IF feed.text # None THEN feed.text ELSE feed.category_hint,
                         image_type, should_save_image, category_suggestion)
      it == IF raises THEN "other" ELSE result.image_type IN
  /\ feed.pc = "classify"
  /\ feed' = [feed EXCEPT
       !.pc = "extract",
       !.classifier = outcome,
       !.classification_result = IF raises THEN NoClassification ELSE result,
       !.image_type = it,
       !.should_save_image = IF raises THEN TRUE ELSE result.should_save_image,
       !.input_type = IF it \in {"screenshot", "activity_screenshot", "sleep_screenshot"}
                        THEN "SCREENSHOT" ELSE "IMAGE"]
  /\ sse' = IF feed.stream THEN _sse_event(sse, "phase") ELSE sse
  /\ UNCHANGED <<life_stream, response, served, regenerated, collection>>

\* the category of the result built when the extraction failed twice:
\* category_hint if it names a category, else (only without a hint) the
\* classifier's suggestion if it names one, else MOOD
fallback_category(f) ==
  IF f.category_hint # None /\ f.category_hint # ""
    THEN IF Category_value(f.category_hint) # None
           THEN Category_value(f.category_hint) ELSE "MOOD"
    ELSE IF f.classification_result.present
              /\ Category_value(f.classification_result.category_suggestion) # None
           THEN Category_value(f.classification_result.category_suggestion)
           ELSE "MOOD"

\* The JSON object of the extractor's model: category, dimension_scores,
\* record_time, what is left as meta_data, and the reply_text _call_ai ends
\* with (the model's, or "recorded" when it gave none worth showing)
Json(category, dimension_scores, record_time, meta_data, reply_text) ==
  [category |-> category, dimension_scores |-> dimension_scores,
   record_time |-> record_time, meta_data |-> meta_data, reply_text |-> reply_text]
GoodBag == CHOOSE b \in MetaBags : b.quality = "good"
PoorBag == CHOOSE b \in MetaBags : b.quality = "poor"
ExtractorReplies(now) ==
  { Json("sleep", WildScores, TimeString("date", DayOf(now) + 2), GoodBag, "insight"),
    Json("FOOD", NoScores, TimeString("yesterday", 0), PoorBag, "recorded"),
    Json(None, FewScores, TimeString("garbage", 0), PlainBag, "insight"),
    Json("WORK", MixedScores, TimeString("datetime", now - 3), GoodBag, "insight"),
    Json("", NoScores, TimeString("last_night_at", 23), GoodBag, "insight"),
    Json("sleep", NoScores, TimeString("datetime", now + 2 * Day), GoodBag, "insight") }

\* DataExtractor.extract: the result _call_ai builds from the model's JSON
\* ("ai"), or _mock_extract's when the call or the parsing failed ("mock")
extract(outcome, image_type, has_image, now, json) ==
  IF outcome = "ai"
    THEN [present |-> TRUE,
          category |-> AiCategory(DefaultCategory(image_type, has_image), json.category),
          meta_data |-> json.meta_data,
          dimension_scores |-> CleanScores(json.dimension_scores),
          record_time |-> _parse_record_time(json.record_time, now),
          reply_text |-> json.reply_text]
    ELSE [present |-> TRUE, category |-> MockCategory(image_type), meta_data |-> PlainBag,
          dimension_scores |-> NoScores, record_time |-> NoTime,
          reply_text |-> "saved, analysis unavailable"]

\* `image_type or "other"` with an image, "other" without
or_other(image_type, has_image) ==
  IF has_image /\ image_type # None THEN image_type ELSE "other"

\* "AI category first, then category_hint, then the classifier's
\* suggestion, then MOOD"
DetermineCategory(f) ==
  LET c0 == f.extract_result.category
      c1 == IF c0 # None /\ c0 # "" THEN c0 ELSE Category_value(f.category_hint)
      c2 == IF c1 = None /\ f.classification_result.present
              THEN Category_value(f.classification_result.category_suggestion)
              ELSE c1 IN
  IF c2 = None THEN "MOOD" ELSE c2

\* phase 3 is entered if the image is to be kept; otherwise the category is
\* determined and phase 4 starts
AfterExtract(f) ==
  IF f.should_save_image /\ f.has_image
    THEN [f EXCEPT !.pc = "save_image", !.attempt = 0]
    ELSE [f EXCEPT !.pc = "tags", !.attempt = 0, !.category = DetermineCategory(f)]

\* phase 2, one pass of `for attempt in range(2)`: the extractor returns, or
\* raises; a first exception is retried, a second one marks ai_insight
\* failed and a basic result is built
ExtractPhase(outcome, json) ==
  /\ feed.pc = "extract"
  /\ feed' =
       IF outcome # "raise"
         THEN AfterExtract([feed EXCEPT !.extract_result =
                extract(outcome, or_other(feed.image_type, feed.has_image), feed.has_image,
                        feed.now, json)])
       ELSE IF feed.attempt = 0
         THEN [feed EXCEPT !.attempt = 1]
       ELSE AfterExtract([feed EXCEPT
                !.failed_phases = Append(@, "ai_insight"),
                !.extract_result =
                   [present |-> TRUE, category |-> fallback_category(feed),
                    meta_data |-> PlainBag, dimension_scores |-> NoScores,
                    record_time |-> NoTime,
                    reply_text |-> IF feed.text # None THEN feed.text ELSE "recorded, analysis unavailable"]])
  /\ sse' = IF feed.stream THEN _sse_event(sse, "phase") ELSE sse
  /\ UNCHANGED <<life_stream, response, served, regenerated, collection>>

\* phase 3: image_storage.save_image returns the paths or raises; then the
\* category is determined
SaveImagePhase(ok) ==
  /\ feed.pc = "save_image"
  /\ feed' = [feed EXCEPT
       !.pc = "tags",
       !.image_path = IF ok THEN "path" ELSE None,
       !.failed_phases = IF ok THEN @ ELSE Append(@, "image_save"),
       !.category = DetermineCategory(feed)]
  /\ sse' = IF feed.stream THEN _sse_event(sse, "phase") ELSE sse
  /\ UNCHANGED <<life_stream, response, served, regenerated, collection>>

\* the end of phase 4: empty tags are marked failed unless they already are
AfterTags(f, tags) ==
  [f EXCEPT !.pc = "score", !.attempt = 0, !.tags = tags,
            !.failed_phases =
               IF Len(tags) = 0 /\ \A i \in DOMAIN f.failed_phases : f.failed_phases[i] # "tags"
                 THEN Append(@, "tags") ELSE @]

\* phase 4, one pass of `for attempt in range(2)`: tagger.generate_tags
\* returns tags (the loop ends if there are any) or raises (a second
\* exception marks tags failed)
TagPhase(raises, content) ==
  LET tags == generate_tags(content, feed.text, feed.category, feed.afternoon) IN
  /\ feed.pc = "tags"
  /\ feed' =
       IF raises
         THEN IF feed.attempt = 0
                THEN [feed EXCEPT !.attempt = 1]
                ELSE AfterTags([feed EXCEPT !.failed_phases = Append(@, "tags")], feed.tags)
         ELSE IF Len(tags) > 0 \/ feed.attempt = 1
                THEN AfterTags(feed, tags)
                ELSE [feed EXCEPT !.attempt = 1, !.tags = tags]
  /\ sse' = IF feed.stream THEN _sse_event(sse, "phase") ELSE sse
  /\ UNCHANGED <<life_stream, response, served, regenerated, collection>>

\* phase 5: the extractor's scores if it gave any, else the rules scorer's;
\* if the scorer raises, the scores are empty and marked failed
ScorePhase(raises) ==
  /\ feed.pc = "score"
  /\ feed' =
       IF feed.extract_result.dimension_scores # NoScores
         THEN [feed EXCEPT !.pc = "persist",
                           !.dimension_scores = feed.extract_result.dimension_scores]
       ELSE IF raises
         THEN [feed EXCEPT !.pc = "persist", !.dimension_scores = NoScores,
                           !.failed_phases = Append(@, "dimension_scores")]
       ELSE [feed EXCEPT !.pc = "persist",
               !.dimension_scores =
                  calculate_dimension_scores(feed.category, feed.extract_result.meta_data,
                                             feed.tags, feed.afternoon)]
  /\ sse' = IF feed.stream THEN _sse_event(sse, "phase") ELSE sse
  /\ UNCHANGED <<life_stream, response, served, regenerated, collection>>

\* the LifeStream row create_feed builds from its locals
LifeStream(f) ==
  [input_type |-> f.input_type, category |-> f.category,
   raw_content |-> IF f.text # None THEN f.text
                   ELSE IF f.classification_result.present THEN "content hint" ELSE None,
   meta_data |-> f.extract_result.meta_data,
   ai_insight |-> f.extract_result.reply_text,
   image_type |-> f.image_type, image_saved |-> f.image_path # None,
   tags |-> f.tags, dimension_scores |-> f.dimension_scores,
   record_time |-> f.extract_result.record_time, created_at |-> f.now,
   is_public |-> FALSE, is_deleted |-> FALSE]

\* a handler that answers without having committed anything
PersistNothing(f, rag_ok) ==
  /\ UNCHANGED life_stream
  /\ response' = [NoResponse EXCEPT
                    !.status = IF f.stream THEN "result" ELSE "200",
                    !.id = Len(life_stream) + 1,
                    !.failed_phases = IF rag_ok THEN f.failed_phases
                                      ELSE Append(f.failed_phases, "rag_index")]
\* the row is added and committed, the gamification and the RAG index are
\* updated (a failing index is appended to failed_phases), and the response
\* (the `result` event) carries failed_phases
PersistRow(f, rag_ok) ==
  /\ life_stream' = Append(life_stream, LifeStream(f))
  /\ response' = [NoResponse EXCEPT
                    !.status = IF f.stream THEN "result" ELSE "200",
                    !.id = Len(life_stream) + 1,
                    !.failed_phases = IF rag_ok THEN f.failed_phases
                                      ELSE Append(f.failed_phases, "rag_index")]

\* rag.index_record behind get_rag(): the row's entry is upserted under its
\* id; there is no index, or no text or embedding, and nothing is written;
\* or an exception escapes
RagOutcomes == {"ok", "unavailable", "raise"}
index_record(entries, record_id, rag) ==
  IF rag = "ok" THEN entries \cup {record_id} ELSE entries

\* phase 6 and what follows it: db.add, db.commit; a failing commit is
\* rolled back and answered with 500 (an `error` event, the stream's last).
\* create_feed goes on with the gamification and the index without
\* awaiting anything; event_generator first yields the phase event
PersistPhase(commit_ok, rag) ==
  /\ feed.pc = "persist"
  /\ IF ~commit_ok
       THEN /\ response' = [NoResponse EXCEPT
                 !.status = IF feed.stream THEN "error" ELSE "500"]
            /\ sse' = IF feed.stream THEN Return(_sse_event(sse, "error")) ELSE sse
            /\ feed' = IdleFeed
            /\ UNCHANGED <<life_stream, collection>>
     ELSE IF feed.stream
       THEN /\ life_stream' = Append(life_stream, LifeStream(feed))
            /\ feed' = [feed EXCEPT !.pc = "index", !.record_id = Len(life_stream) + 1]
            /\ sse' = _sse_event(sse, "phase")
            /\ UNCHANGED <<response, collection>>
     ELSE /\ PersistRow(feed, rag # "raise")
          /\ collection' = index_record(collection, Len(life_stream) + 1, rag)
          /\ feed' = IdleFeed
          /\ UNCHANGED sse
  /\ UNCHANGED <<served, regenerated>>

\* an event generator whose `result` event reports no failed phase
IndexPhaseSilent(rag) ==
  /\ feed.pc = "index"
  /\ collection' = index_record(collection, feed.record_id, rag)
  /\ response' = [NoResponse EXCEPT !.status = "result", !.id = feed.record_id]
  /\ sse' = Return(_sse_event(sse, "result"))
  /\ feed' = IdleFeed
  /\ UNCHANGED <<life_stream, served, regenerated>>

\* phase 7 of event_generator: the gamification and the index are updated
\* from the row object the generator holds, then the `result` event
\* carries failed_phases and the stream ends
IndexPhase(rag) ==
  /\ feed.pc = "index"
  /\ collection' = index_record(collection, feed.record_id, rag)
  /\ response' = [NoResponse EXCEPT
                    !.status = "result", !.id = feed.record_id,
                    !.failed_phases = IF rag # "raise" THEN feed.failed_phases
                                      ELSE Append(feed.failed_phases, "rag_index")]
  /\ sse' = Return(_sse_event(sse, "result"))
  /\ feed' = IdleFeed
  /\ UNCHANGED <<life_stream, served, regenerated>>

\* the phases a regeneration may be asked for
Phases == {"tags", "dimension_scores", "ai_insight"}

\* a tags phase that stores whatever it got, and nothing when it failed
RegenerateTagsUnguarded(record, raises, content, afternoon) ==
  [record EXCEPT !.tags =
     IF raises THEN <<>>
     ELSE generate_tags(content, record.raw_content, record.category, afternoon)]

\* regenerate_phases, "tags": new tags replace the old ones if there are any
RegenerateTags(record, raises, content, afternoon) ==
  LET new_tags == generate_tags(content, record.raw_content, record.category, afternoon) IN
  IF ~raises /\ Len(new_tags) > 0 THEN [record EXCEPT !.tags = new_tags] ELSE record

\* regenerate_phases, "dimension_scores": the rules scorer on the record's
\* category, meta_data and (possibly just regenerated) tags
RegenerateScores(record, raises, afternoon) ==
  IF raises THEN record
  ELSE [record EXCEPT !.dimension_scores =
          calculate_dimension_scores(record.category, record.meta_data, record.tags,
                                     afternoon)]

\* regenerate_phases, "ai_insight": the extractor on the record's text, with
\* created_at as the client's clock; a reply worth showing replaces the
\* insight and the meta_data, and the scores if the record has none
RegenerateInsight(record, result) ==
  IF result.reply_text # None /\ result.reply_text # "recorded"
    THEN [record EXCEPT
            !.ai_insight = result.reply_text,
            !.meta_data = result.meta_data,
            !.dimension_scores =
               IF result.dimension_scores # NoScores /\ @ = NoScores
                 THEN result.dimension_scores ELSE @]
    ELSE record

\* the row after the requested phases have run one after the other on it
RegeneratedRecord(r0, phases, raises, content, afternoon, outcome, json) ==
  LET r1 == IF "tags" \in phases
              THEN RegenerateTags(r0, "tags" \in raises, content, afternoon)
              ELSE r0
      r2 == IF "dimension_scores" \in phases
              THEN RegenerateScores(r1, "dimension_scores" \in raises, afternoon)
              ELSE r1
      result == extract(outcome, IF r0.image_type # None THEN r0.image_type ELSE "other",
                        FALSE, r0.created_at, json) IN
  IF "ai_insight" \in phases /\ "ai_insight" \notin raises
    THEN RegenerateInsight(r2, result)
    ELSE r2

\* POST /api/feed/{record_id}/regenerate: a row that is soft-deleted is not
\* found (404); else the requested phases run on the row, then one commit
\* (a failing commit is rolled back)
regenerate_phases(record_id, phases, raises, content, afternoon, outcome, json, commit_ok) ==
  LET r0 == life_stream[record_id]
      r3 == RegeneratedRecord(r0, phases, raises, content, afternoon, outcome, json)
      result == extract(outcome, IF r0.image_type # None THEN r0.image_type ELSE "other",
                        FALSE, r0.created_at, json)
      still_failed ==
        {p \in phases : \/ p \in raises
                        \/ p = "tags"
                             /\ Len(generate_tags(content, r0.raw_content, r0.category,
                                                  afternoon)) = 0
                        \/ p = "ai_insight" /\ result.reply_text = "recorded"} IN
  /\ regenerated < MaxRegenerations
  /\ record_id \in DOMAIN life_stream
  /\ phases # {}
  /\ raises \subseteq phases
  /\ regenerated' = regenerated + 1
  /\ life_stream' = IF commit_ok /\ ~r0.is_deleted
                      THEN [life_stream EXCEPT ![record_id] = r3] ELSE life_stream
  /\ response' = IF r0.is_deleted
                   THEN [NoResponse EXCEPT !.op = "regenerate", !.phases = phases,
                                           !.status = "404"]
                 ELSE IF commit_ok
                   THEN [NoResponse EXCEPT
                           !.op = "regenerate", !.phases = phases,
                           !.status = "200", !.id = record_id,
                           !.failed_phases =
                              SelectSeq(<<"tags", "dimension_scores", "ai_insight">>,
                                        LAMBDA p : p \in still_failed)]
                   ELSE [NoResponse EXCEPT !.op = "regenerate", !.phases = phases,
                                           !.status = "500", !.id = record_id]
  /\ UNCHANGED <<feed, served, sse, collection>>

(***************************************************************************)
(* Authentication (app/routers/auth.py), the record endpoints of           *)
(* app/routers/feed.py and the start-up of app/main.py                     *)
(***************************************************************************)
\* the token's life time, in ticks of the clock
TOKEN_EXPIRE_SECONDS == 1
\* a request without an Authorization header
NoHeader == 0
\* the tokens a request may carry: those login has handed out and one more
Authorizations == 0..(MaxLogins + 1)
\* the record ids a request may name: the rows there may be and one more
RecordIds == 1..(MaxRequests + 1)

VARIABLES
  _token_store,  \* token -> the time it expires at
  clock,         \* time.time()
  header,        \* the Authorization header verify_token saw last
  sessions,      \* what login handed out: per token, when, and whether
                 \* logout was called with it since
  restarts       \* how often the process was started again

recvars == <<_token_store, clock, sessions, header, restarts>>

NoTokens == [t \in {} |-> 0]

InitRecords ==
  /\ _token_store = NoTokens
  /\ clock = 0
  /\ sessions = <<>>
  /\ header = NoHeader
  /\ restarts = 0

\* dict.pop(token, None)
pop(store, token) == [t \in DOMAIN store \ {token} |-> store[t]]
\* _cleanup_expired: the tokens that expired before now are dropped
_cleanup_expired(store, now) ==
  [t \in {t \in DOMAIN store : ~(store[t] < now)} |-> store[t]]

\* time passes
Tick ==
  /\ clock < MaxClock
  /\ clock' = clock + 1
  /\ UNCHANGED <<_token_store, sessions, header, restarts>>
  /\ UNCHANGED feedvars

\* POST /api/auth/login: the right password is answered with a fresh token
\* stored with its expiry, a wrong one with 401
login(password_ok) ==
  LET token == Len(sessions) + 1 IN
  /\ Len(sessions) < MaxLogins
  /\ IF password_ok
       THEN /\ _token_store' =
                 [t \in DOMAIN _cleanup_expired(_token_store, clock) \cup {token} |->
                    IF t = token THEN clock + TOKEN_EXPIRE_SECONDS ELSE _token_store[t]]
            /\ sessions' = Append(sessions, [issued_at |-> clock, logged_out |-> FALSE])
            /\ response' = [NoResponse EXCEPT !.op = "login", !.status = "200",
                                              !.ids = <<token>>]
       ELSE /\ response' = [NoResponse EXCEPT !.op = "login", !.status = "401"]
            /\ UNCHANGED <<_token_store, sessions>>
  /\ UNCHANGED <<clock, header, restarts>>
  /\ UNCHANGED <<feed, life_stream, served, regenerated, sse, collection>>

\* POST /api/auth/logout
logout(token) ==
  /\ _token_store' = pop(_token_store, token)
  /\ sessions' = [t \in DOMAIN sessions |->
                    IF t = token THEN [sessions[t] EXCEPT !.logged_out = TRUE]
                    ELSE sessions[t]]
  /\ response' = [NoResponse EXCEPT !.op = "logout", !.status = "200"]
  /\ UNCHANGED <<clock, header, restarts>>
  /\ UNCHANGED <<feed, life_stream, served, regenerated, sse, collection>>

\* a check that accepts any header
AcceptedAny(authorization) == authorization # NoHeader
\* verify_token accepts the header: its token is stored and has not expired
Accepted(authorization) ==
  /\ authorization # NoHeader
  /\ authorization \in DOMAIN _token_store
  /\ ~(_token_store[authorization] < clock)

\* Depends(verify_token) in front of a handler: a missing, unknown or expired
\* token is answered with 401 (and dropped from the store) before the
\* handler runs
verify_token(op, authorization, handler) ==
  /\ header' = authorization
  /\ IF Accepted(authorization)
       THEN /\ handler
            /\ UNCHANGED _token_store
       ELSE /\ _token_store' = IF authorization = NoHeader THEN _token_store
                               ELSE pop(_token_store, authorization)
            /\ response' = [NoResponse EXCEPT !.op = op, !.status = "401"]
            /\ UNCHANGED <<feed, life_stream, served, regenerated, sse, collection>>
  /\ UNCHANGED <<clock, sessions, restarts>>

\* RAGService.remove_record behind get_rag(): the entry is deleted, or there
\* is no index, or the store raises (logged)
remove_record(entries, record_id, rag) ==
  IF rag = "ok" THEN entries \ {record_id} ELSE entries

\* DELETE /api/feed/{record_id}: the row is marked deleted and committed
\* (a failing commit is rolled back, 500), then its entry is removed from
\* the vector collection
delete_record(record_id, commit_ok, rag) ==
  /\ IF record_id \notin DOMAIN life_stream
       THEN /\ response' = [NoResponse EXCEPT !.op = "delete", !.status = "404"]
            /\ UNCHANGED <<life_stream, collection>>
     ELSE IF ~commit_ok
       THEN /\ response' = [NoResponse EXCEPT !.op = "delete", !.status = "500"]
            /\ UNCHANGED <<life_stream, collection>>
     ELSE /\ life_stream' = [life_stream EXCEPT ![record_id].is_deleted = TRUE]
          /\ collection' = remove_record(collection, record_id, rag)
          /\ response' = [NoResponse EXCEPT !.op = "delete", !.status = "200",
                                            !.id = record_id]
  /\ UNCHANGED <<feed, served, regenerated, sse>>

\* PATCH /api/feed/{record_id}/visibility
update_visibility(record_id, is_public, commit_ok) ==
  /\ IF record_id \notin DOMAIN life_stream
       THEN /\ response' = [NoResponse EXCEPT !.op = "visibility", !.status = "404"]
            /\ UNCHANGED life_stream
     ELSE IF ~commit_ok
       THEN /\ response' = [NoResponse EXCEPT !.op = "visibility", !.status = "500"]
            /\ UNCHANGED life_stream
     ELSE /\ life_stream' = [life_stream EXCEPT ![record_id].is_public = is_public]
          /\ response' = [NoResponse EXCEPT !.op = "visibility", !.status = "200",
                                            !.id = record_id]
  /\ UNCHANGED <<feed, served, regenerated, sse, collection>>

\* the ids of the rows a query selects, newest first (by created_at, then id)
RECURSIVE Newest(_, _)
Newest(rows, ids) ==
  IF ids = {} THEN <<>>
  ELSE LET id == CHOOSE i \in ids :
                   \A j \in ids : \/ rows[i].created_at > rows[j].created_at
                                  \/ rows[i].created_at = rows[j].created_at /\ i >= j IN
       <<id>> \o Newest(rows, ids \ {id})
\* query.offset(offset).limit(limit)
Page(ids, offset, limit) == SubSeq(ids, offset + 1, Min(offset + limit, Len(ids)))

\* GET /api/feed/history: the rows that are not deleted, of the category if
\* one is given, newest first, one page of them
get_history(limit, offset, category) ==
  LET ids == {i \in DOMAIN life_stream :
                /\ ~life_stream[i].is_deleted
                /\ category # None => life_stream[i].category = upper(category)} IN
  /\ response' = [NoResponse EXCEPT !.op = "history", !.status = "200",
                    !.ids = Page(Newest(life_stream, ids), offset, limit)]
  /\ UNCHANGED <<feed, life_stream, served, regenerated, sse, collection>>
  /\ UNCHANGED recvars

\* GET /api/feed/{record_id}: the row of that id, 404 if there is none
get_record_detail(record_id) ==
  /\ response' = [NoResponse EXCEPT
                    !.op = "detail", !.id = record_id,
                    !.status = IF record_id \in DOMAIN life_stream THEN "200" ELSE "404"]
  /\ UNCHANGED <<feed, life_stream, served, regenerated, sse, collection>>
  /\ UNCHANGED recvars

\* RAGService.get_stats: round(collection_count / db_count * 100, 1) < 95,
\* db_count being the number of all rows
coverage_below_95(entries, rows) ==
  Cardinality(entries) * 2000 < 1899 * Len(rows)
\* RAGService.index_all_records: every row that is not deleted is upserted
index_all_records(entries, rows) ==
  entries \cup {i \in DOMAIN rows : ~rows[i].is_deleted}

\* the process is started again once its requests are answered: the token
\* store is empty, and lifespan runs auto_index_rag before anything is served
lifespan(rag) ==
  /\ restarts < MaxRestarts
  /\ feed.pc = "idle"
  /\ restarts' = restarts + 1
  /\ _token_store' = NoTokens
  /\ collection' = IF rag = "ok" /\ Len(life_stream) > 0
                       /\ coverage_below_95(collection, life_stream)
                     THEN index_all_records(collection, life_stream)
                     ELSE collection
  /\ UNCHANGED <<feed, life_stream, response, served, regenerated, sse>>
  /\ UNCHANGED <<clock, sessions, header>>

(***************************************************************************)
(* The streaming chat endpoint (app/routers/chat.py)                       *)
(***************************************************************************)
\* request.conversation_id when the caller gives none
NoId == 0
\* the utterances callers send and the token deltas of a reply, in order
ChatTexts == {"hello"}
Tokens == <<"t1", "t2", "t3", "t4">>

\* rows of the two tables; updated_at counts the writes of the timestamp
ChatConversation(title) == [title |-> title, updated_at |-> 0]
ChatMessage(conversation_id, role, content) ==
  [conversation_id |-> conversation_id, role |-> role, content |-> content]

\* message[:30] + "..." (the utterances of the model are shorter than 30)
Title(message) == message

\* What ChatAssistant.chat_stream gives next, after `produced` token deltas:
\* one more delta {"content": "...", "done": false}, the final event
\* {"content": "", "done": true} after at least one delta, a final event
\* {"content": "generation failed: ...", "done": true} after a failure; the
\* generator is exhausted (stop) after a final event
Chunk(content, done) == [stop |-> FALSE, content |-> content, done |-> done]
StopAsyncIteration == [stop |-> TRUE, content |-> <<>>, done |-> TRUE]
GenerationFailed == Chunk(<<"generation failed">>, TRUE)
chat_stream(produced, finished) ==
  IF finished THEN {StopAsyncIteration}
  ELSE (IF produced < MaxTokens THEN {Chunk(<<Tokens[produced + 1]>>, FALSE)} ELSE {})
         \cup (IF produced > 0 THEN {Chunk(<<>>, TRUE)} ELSE {})
         \cup {GenerationFailed}

VARIABLES
  chat_conversation,  \* the ChatConversation table: rows by id
  chat_message,       \* the ChatMessage table: rows in commit order
  streams             \* the requests to POST /api/chat/stream, by utterance

chatvars == <<chat_conversation, chat_message, streams>>

\* the locals of stream_message and stream_and_persist, the events the
\* client received, the position of chat_stream and the handler's log
IdleStream ==
  [pc |-> "idle", status |-> "none", conversation_id |-> NoId, message |-> None,
   history |-> <<>>, conv_title |-> None, is_new_conv |-> FALSE,
   accumulated |-> <<>>, new_conv_sent |-> FALSE, chunk |-> StopAsyncIteration,
   events |-> <<>>, produced |-> 0, finished |-> FALSE, log |-> "none"]

InitChat ==
  /\ chat_conversation = <<>>
  /\ chat_message = <<>>
  /\ streams = [u \in 1..MaxUtterances |-> IdleStream]

\* a handler that leaves the user message to be saved with the reply
SkipUserMessage(table, conversation_id, message) == table
\* `db.add(user_msg); db.commit()` before the stream is built
SaveUserMessage(table, conversation_id, message) ==
  Append(table, ChatMessage(conversation_id, "user", <<message>>))

\* stream_message up to the StreamingResponse: the conversation is found
\* (404 if not) or created, the user message is committed, the history is
\* read, a first message sets the title; `fails` names the commit that
\* raises, if one does (the request then ends with 500)
stream_message(u, conversation_id, message, fails) ==
  LET new == conversation_id = NoId
      id == IF new THEN Len(chat_conversation) + 1 ELSE conversation_id
      conv1 == IF new THEN Append(chat_conversation, ChatConversation(Title(message)))
               ELSE chat_conversation
      msgs1 == SaveUserMessage(chat_message, id, message)
      history_msgs == SelectSeq(msgs1, LAMBDA m : m.conversation_id = id)
      is_first_message == Len(history_msgs) = 1
      conv2 == IF is_first_message
                 THEN [conv1 EXCEPT ![id] = [title |-> Title(message),
                                             updated_at |-> @.updated_at + 1]]
                 ELSE conv1
      answer(status) == [streams EXCEPT ![u] = [@ EXCEPT !.pc = "rejected",
                                                         !.status = status]] IN
  /\ streams[u].pc = "idle"
  /\ fails = "conversation" => new
  /\ fails = "title" => (new \/ conversation_id \in DOMAIN chat_conversation) /\ is_first_message
  /\ CASE ~new /\ conversation_id \notin DOMAIN chat_conversation ->
            /\ streams' = answer("404")
            /\ UNCHANGED <<chat_conversation, chat_message>>
       [] fails = "conversation" ->
            /\ streams' = answer("500")
            /\ UNCHANGED <<chat_conversation, chat_message>>
       [] fails = "message" ->
            /\ streams' = answer("500")
            /\ chat_conversation' = conv1
            /\ UNCHANGED chat_message
       [] fails = "title" ->
            /\ streams' = answer("500")
            /\ chat_conversation' = conv1
            /\ chat_message' = msgs1
       [] OTHER ->
            /\ chat_conversation' = conv2
            /\ chat_message' = msgs1
            /\ streams' = [streams EXCEPT ![u] =
                 [@ EXCEPT !.pc = "iterating", !.status = "200",
                           !.conversation_id = id, !.message = message,
                           !.history = [i \in 1..(Len(history_msgs) - 1) |->
                                          [role |-> history_msgs[i].role,
                                           content |-> history_msgs[i].content]],
                           !.conv_title = conv2[id].title,
                           !.is_new_conv = new]]

\* a handler that accumulates the content of every event, final or not
AccumulateAll(accumulated, chunk) == accumulated \o chunk.content
\* `if data.get("content") and not data.get("done"): accumulated += ...`
Accumulate(accumulated, chunk) ==
  IF chunk.content # <<>> /\ ~chunk.done THEN accumulated \o chunk.content
  ELSE accumulated

\* a handler that saves the reply after the loop, not in a finally block:
\* nothing is saved unless chat_stream came to its end
SaveAfterLoop(s, save_ok) ==
  /\ chat_message' =
       IF s.accumulated # <<>> /\ save_ok /\ s.finished
         THEN Append(chat_message, ChatMessage(s.conversation_id, "assistant", s.accumulated))
         ELSE chat_message
  /\ chat_conversation' =
       IF s.accumulated # <<>> /\ save_ok /\ s.finished
         THEN [chat_conversation EXCEPT ![s.conversation_id].updated_at = @ + 1]
         ELSE chat_conversation
\* the finally block of stream_and_persist: a non-empty accumulation is
\* saved under a fresh session as one assistant message and the
\* conversation's updated_at is advanced; a failing save is logged
Finally(s, save_ok) ==
  /\ chat_message' =
       IF s.accumulated # <<>> /\ save_ok
         THEN Append(chat_message, ChatMessage(s.conversation_id, "assistant", s.accumulated))
         ELSE chat_message
  /\ chat_conversation' =
       IF s.accumulated # <<>> /\ save_ok
         THEN [chat_conversation EXCEPT ![s.conversation_id].updated_at = @ + 1]
         ELSE chat_conversation

\* what the finally block logs
Logged(s, save_ok) ==
  IF s.accumulated = <<>> THEN "none" ELSE IF save_ok THEN "saved" ELSE "save failed"

\* stream_and_persist asks chat_stream for its next chunk: at the end of the
\* stream the finally block runs; before the first chunk is handled the
\* meta event is to be sent; otherwise the chunk is accumulated and sent
Iterate(u, chunk, save_ok) ==
  LET s == streams[u] IN
  /\ s.pc = "iterating"
  /\ chunk \in chat_stream(s.produced, s.finished)
  /\ IF chunk.stop
       THEN /\ Finally(s, save_ok)
            /\ streams' = [streams EXCEPT ![u] = [@ EXCEPT !.pc = "closed",
                                                           !.log = Logged(s, save_ok)]]
       ELSE /\ UNCHANGED <<chat_conversation, chat_message>>
            /\ streams' = [streams EXCEPT ![u] =
                 [@ EXCEPT !.chunk = chunk,
                           !.produced = IF chunk.done THEN @ ELSE @ + 1,
                           !.finished = chunk.done,
                           !.pc = IF s.new_conv_sent THEN "yield_chunk" ELSE "yield_meta",
                           !.accumulated = IF s.new_conv_sent THEN Accumulate(@, chunk)
                                           ELSE @]]

\* `yield meta`: the client receives {conversation_id, is_new, title}; then
\* the first chunk is accumulated
YieldMeta(u) ==
  LET s == streams[u] IN
  /\ s.pc = "yield_meta"
  /\ streams' = [streams EXCEPT ![u] =
       [@ EXCEPT !.pc = "yield_chunk", !.new_conv_sent = TRUE,
                 !.accumulated = Accumulate(@, s.chunk),
                 !.events = Append(@, [kind |-> "meta",
                                       data |-> [conversation_id |-> s.conversation_id,
                                                 is_new |-> s.is_new_conv,
                                                 title |-> s.conv_title]])]]
  /\ UNCHANGED <<chat_conversation, chat_message>>

\* `yield chunk`: the client receives the chunk
YieldChunk(u) ==
  LET s == streams[u] IN
  /\ s.pc = "yield_chunk"
  /\ streams' = [streams EXCEPT ![u] =
       [@ EXCEPT !.pc = "iterating",
                 !.events = Append(@, [kind |-> "chunk", data |-> s.chunk])]]
  /\ UNCHANGED <<chat_conversation, chat_message>>

\* the client disconnects: the generator is closed where it is suspended
\* (waiting for chat_stream, or at one of its two yields, whose event is
\* not delivered) and its finally block runs
Disconnect(u, save_ok) ==
  LET s == streams[u] IN
  /\ s.pc \in {"iterating", "yield_meta", "yield_chunk"}
  /\ Finally(s, save_ok)
  /\ streams' = [streams EXCEPT ![u] = [@ EXCEPT !.pc = "closed",
                                                 !.log = Logged(s, save_ok)]]

(***************************************************************************)
(* Specifications                                                          *)
(***************************************************************************)
vars == <<gwvars, feedvars, chatvars, recvars>>

\* limiter runs: chat completions and extractions contend for the permits of
\* the text models; every response carries usage and parses, the ledger works
InitGateway == InitCalls(NumCalls) /\ InitFeed /\ InitChat /\ InitRecords
NextGateway ==
  /\ \E c \in 1..NumCalls :
       \/ \E k \in {"chat", "extract"} : \E m \in StartModels(k) : Start(c, k, m)
       \/ AcquireStep(c)
       \/ UpstreamStep(c, MaxFaults, {TRUE}, {TRUE})
  /\ UNCHANGED <<feedvars, chatvars, recvars>>
SpecGateway == InitGateway /\ [][NextGateway]_vars

\* an extraction whose upstream call is under way on the text model
ExtractionInFlight ==
  Dispatch(EnterAcquire([IdleCall EXCEPT !.kind = "extract", !.model = text_model,
                                         !.allow_fallback = TRUE], text_model),
           text_model)

\* retry runs: few calls, long fault sequences, contents that may not parse
\* (every response carries usage and the ledger works); they
\* begin while extractions of earlier submissions hold every permit of the
\* text model
RetryCalls == NumRetryCalls + Limit(text_model)
InitRetry ==
  /\ semaphores = (text_model :> 0)
  /\ calls = [c \in 1..RetryCalls |->
                IF c <= NumRetryCalls THEN IdleCall ELSE ExtractionInFlight]
  /\ ledger = [m \in Models |-> 0]
  /\ faults = 0
  /\ InitFeed
  /\ InitChat
  /\ InitRecords
NextRetry ==
  /\ \E c \in 1..RetryCalls :
       \/ \E k \in Kinds : \E m \in StartModels(k) : Start(c, k, m)
       \/ AcquireStep(c)
       \/ UpstreamStep(c, MaxRetryFaults, {TRUE}, BOOLEAN)
  /\ UNCHANGED <<feedvars, chatvars, recvars>>
SpecRetry == InitRetry /\ [][NextRetry]_vars

\* a burst: every call, of the gateway or of the extractor, asks for the
\* flash text model
InitBurst == InitCalls(NumCalls) /\ InitFeed /\ InitChat /\ InitRecords
NextBurst ==
  /\ \E c \in 1..NumCalls :
       \/ \E k \in {"chat", "extract"} : Start(c, k, simple_text_model)
       \/ AcquireStep(c)
       \/ UpstreamStep(c, MaxFaults, {TRUE}, {TRUE})
  /\ UNCHANGED <<feedvars, chatvars, recvars>>
SpecBurst == InitBurst /\ [][NextBurst]_vars

\* what callers and models supply to the pipeline
Hints == {None, "sleep", "FOOD"}
Suggestions == {"WORK", "FOOD"}
Nows == {Noon(20) - 11}
\* what the extractor does in phase 2: it returns what it built from one of
\* the model's replies, returns its mock result, or raises
ExtractorOutcomes(now) ==
  {<<"ai", j>> : j \in ExtractorReplies(now)}
    \cup {<<o, CHOOSE j \in ExtractorReplies(now) : TRUE>> : o \in {"mock", "raise"}}
\* and on a regeneration: scores for a record that has none, a reply not
\* worth showing, scores that are dropped, the mock result
RegeneratorOutcomes(now) ==
  {e \in ExtractorOutcomes(now) :
     \/ e[1] = "mock"
     \/ e[1] = "ai" /\ e[2].dimension_scores \in {WildScores, FewScores}
     \/ e[1] = "ai" /\ e[2].reply_text = "recorded"}

\* pipeline runs: ingestion requests one after the other, then regenerations
\* of the committed rows; every phase may fail
InitPipeline == InitCalls(0) /\ InitFeed /\ InitChat /\ InitRecords
\* a request arrives at POST /api/feed or /api/feed/stream
Arrive ==
  /\ \/ \E stream \in BOOLEAN : \E status \in {"400", "413"} : RejectFeed(stream, status)
     \/ \E stream \in BOOLEAN : \E text \in Texts : \E has_image \in BOOLEAN :
          \E hint \in Hints : \E now \in Nows :
            create_feed(stream, text, has_image, hint, now)
  /\ UNCHANGED <<gwvars, chatvars, recvars>>
\* the handler of the request under way takes its next step
PipelineStep ==
  /\ \/ \E it \in ImageTypes : \E save \in BOOLEAN : \E cs \in Suggestions :
          ClassifyPhase("ai", it, save, cs)
     \/ \E outcome \in ClassifierOutcomes \ {"ai"} :
          ClassifyPhase(outcome, "other", FALSE, "MOOD")
     \/ \E e \in ExtractorOutcomes(feed.now) : ExtractPhase(e[1], e[2])
     \/ \E ok \in BOOLEAN : SaveImagePhase(ok)
     \/ \E raises \in BOOLEAN : \E content \in TaggerReplies : TagPhase(raises, content)
     \/ \E raises \in BOOLEAN : ScorePhase(raises)
     \/ \E commit_ok \in BOOLEAN : \E rag \in {"ok", "raise"} :
          PersistPhase(commit_ok, rag)
     \/ \E rag \in {"ok", "raise"} : IndexPhase(rag)
  /\ UNCHANGED <<gwvars, chatvars, recvars>>
\* a request arrives at POST /api/feed/{record_id}/regenerate once the
\* ingestion has answered; its commit succeeds, or fails whatever the phases
\* did
Regenerate ==
  /\ feed.pc = "idle"
  /\ \/ /\ regenerated < MaxRegenerations
        /\ \E id \in DOMAIN life_stream : \E phases \in SUBSET Phases :
             \E raises \in SUBSET phases :
               \E content \in (IF "tags" \in phases \ raises
                                  THEN TaggerReplies ELSE {Content("error", <<>>)}) :
                 \E afternoon \in (IF phases \ raises \subseteq {"ai_insight"}
                                     THEN {FALSE} ELSE BOOLEAN) :
                   \E e \in (IF "ai_insight" \in phases \ raises
                               THEN RegeneratorOutcomes(life_stream[id].created_at)
                               ELSE {<<"mock", Json(None, NoScores, TimeString("absent", 0),
                                                    PlainBag, None)>>}) :
                     regenerate_phases(id, phases, raises, content, afternoon, e[1],
                                       e[2], TRUE)
     \/ /\ regenerated < MaxRegenerations
        /\ \E id \in DOMAIN life_stream : \E phases \in SUBSET Phases :
             \E raises \in {{}, phases} : \E content \in {Content("list", GoodTags)} :
               \E e \in {x \in RegeneratorOutcomes(life_stream[id].created_at) :
                            x[1] = "ai" /\ x[2].reply_text = "insight"} :
                 regenerate_phases(id, phases, raises, content, TRUE, e[1], e[2], FALSE)
  /\ UNCHANGED <<gwvars, chatvars, recvars>>
NextPipeline == Arrive \/ PipelineStep \/ Regenerate
SpecPipeline == InitPipeline /\ [][NextPipeline]_vars
\* the handler is one coroutine: every call it awaits returns or raises (the
\* model calls carry timeouts), so a request under way keeps taking steps
FairPipeline == SpecPipeline /\ WF_vars(PipelineStep)
\* the ingestion alone: requests one after the other, no regeneration
NextIngestion == Arrive \/ PipelineStep
SpecIngestion == InitPipeline /\ [][NextIngestion]_vars
FairIngestion == SpecIngestion /\ WF_vars(PipelineStep)

\* chat runs: utterances sent to POST /api/chat/stream, with or without the
\* id of a conversation, by clients that may go away at any moment
InitChatRuns == InitCalls(0) /\ InitFeed /\ InitChat /\ InitRecords
NextChat ==
  /\ \E u \in 1..MaxUtterances :
       \/ \E conversation_id \in {NoId} \cup 1..MaxUtterances : \E message \in ChatTexts :
            \E fails \in {"none", "conversation", "message", "title"} :
              stream_message(u, conversation_id, message, fails)
       \/ \E chunk \in chat_stream(streams[u].produced, streams[u].finished) :
            \E save_ok \in BOOLEAN : Iterate(u, chunk, save_ok)
       \/ YieldMeta(u)
       \/ YieldChunk(u)
       \/ \E save_ok \in BOOLEAN : Disconnect(u, save_ok)
  /\ UNCHANGED <<gwvars, feedvars, recvars>>
SpecChat == InitChatRuns /\ [][NextChat]_vars

\* record runs: text records are ingested, with or without the event stream,
\* while clients log in and out, read, delete, publish and regenerate
\* records, time passes and the process is started again
InitRecordRuns == InitCalls(0) /\ InitFeed /\ InitChat /\ InitRecords
RecordReply == CHOOSE j \in ExtractorReplies(CHOOSE now \in Nows : TRUE) : j.category = None
RegenerationReply ==
  CHOOSE j \in ExtractorReplies(CHOOSE now \in Nows : TRUE) : j.category = "WORK"
Ingest ==
  /\ \E stream \in BOOLEAN : \E now \in Nows :
       create_feed(stream, "keywords", FALSE, None, now)
  /\ UNCHANGED <<gwvars, chatvars, recvars>>
IngestStepWith(rags) ==
  /\ \/ ExtractPhase("ai", RecordReply)
     \/ TagPhase(FALSE, Content("list", GoodTags))
     \/ ScorePhase(FALSE)
     \/ \E commit_ok \in BOOLEAN : \E rag \in rags : PersistPhase(commit_ok, rag)
     \/ \E rag \in rags : IndexPhase(rag)
  /\ UNCHANGED <<gwvars, chatvars, recvars>>
IngestStep == IngestStepWith(RagOutcomes)
Authenticate ==
  /\ \/ \E password_ok \in BOOLEAN : login(password_ok)
     \/ \E token \in Authorizations \ {NoHeader} : logout(token)
     \/ Tick
  /\ UNCHANGED <<gwvars, chatvars>>
MutateWith(rags) ==
  /\ \E authorization \in Authorizations : \E record_id \in RecordIds :
       \/ \E commit_ok \in BOOLEAN : \E rag \in rags :
            verify_token("delete", authorization,
                         delete_record(record_id, commit_ok, rag))
       \/ \E is_public \in BOOLEAN : \E commit_ok \in BOOLEAN :
            verify_token("visibility", authorization,
                         update_visibility(record_id, is_public, commit_ok))
       \/ \E commit_ok \in BOOLEAN :
            /\ record_id \in DOMAIN life_stream
            /\ regenerated < MaxRegenerations
            /\ verify_token("regenerate", authorization,
                            regenerate_phases(record_id, Phases, {}, Content("list", GoodTags),
                                              FALSE, "ai", RegenerationReply, commit_ok))
  /\ UNCHANGED <<gwvars, chatvars>>
Mutate == MutateWith(RagOutcomes)
Read ==
  /\ \/ \E limit \in {1, 20} : \E offset \in {0, 1} : \E category \in {None, "sleep"} :
          get_history(limit, offset, category)
     \/ \E record_id \in RecordIds : get_record_detail(record_id)
  /\ UNCHANGED <<gwvars, chatvars>>
RestartWith(rags) ==
  /\ \E rag \in rags : lifespan(rag)
  /\ UNCHANGED <<gwvars, chatvars>>
Restart == RestartWith(RagOutcomes)
NextRecords == Ingest \/ IngestStep \/ Authenticate \/ Mutate \/ Read \/ Restart
SpecRecords == InitRecordRuns /\ [][NextRecords]_vars

\* the same runs with a vector store whose every operation succeeds; the
\* handler of a request under way keeps taking steps, and the process is
\* started again (with its reconciliation) as often as the bound allows
IngestStepIndexed == IngestStepWith({"ok"})
MutateIndexed == MutateWith({"ok"})
RestartIndexed == RestartWith({"ok"})
NextVector ==
  Ingest \/ IngestStepIndexed \/ Authenticate \/ MutateIndexed \/ Read \/ RestartIndexed
SpecVector == InitRecordRuns /\ [][NextVector]_vars
FairVector == SpecVector /\ WF_vars(IngestStepIndexed) /\ WF_vars(RestartIndexed)

(***************************************************************************)
(* Properties of the limiter and the gateway                               *)
(***************************************************************************)
Live(c) == calls[c].pc \notin {"idle", "done"}

\* upstream invocations in flight on model m
InFlight(m) ==
  Cardinality({c \in DOMAIN calls :
                 calls[c].pc = "running" /\ calls[c].actual_model = m})

\* permits of model m held by calls (during the upstream call and, after a
\* retryable failure, until the backoff sleep is over)
Held(m) ==
  Cardinality({c \in DOMAIN calls :
                 calls[c].pc \in {"running", "sleeping"} /\ calls[c].actual_model = m})

\* C1: at every instant, for every model M, the number of upstream
\* invocations in flight on M is at most limit(M) (M's entry in the static
\* table, or the default 3), whether a call reached M directly, through an
\* upgrade or through a fallback.
C1_InFlightWithinLimit ==
  \A m \in Models \cup DOMAIN semaphores :
    InFlight(m) <= (IF m \in DOMAIN MODEL_LIMITS THEN MODEL_LIMITS[m] ELSE 3)

\* the flash model is saturated by a call that fell back to it while another
\* call, upgraded away from it, runs on the premium model
C1_Witness ==
  \E a, b \in DOMAIN calls :
    /\ calls[a].pc = "running" /\ calls[a].has_fallen_back
    /\ calls[a].actual_model = simple_text_model
    /\ calls[b].pc = "running" /\ calls[b].requested_model = simple_text_model
    /\ calls[b].actual_model = text_model
    /\ InFlight(simple_text_model) = 1

\* C2: every attempt gives back exactly the permit it took, on the model it
\* ran on, on every exit path: the free permits of every model are its limit
\* minus the permits held by calls still under way, so that once every
\* logical call has terminated each model has all its permits again.
C2_PermitsBalanced ==
  /\ \A m \in DOMAIN semaphores :
        semaphores[m] + Held(m) = (IF m \in DOMAIN MODEL_LIMITS THEN MODEL_LIMITS[m] ELSE 3)
  /\ (\A c \in DOMAIN calls : ~Live(c)) =>
        \A m \in DOMAIN semaphores :
          semaphores[m] = (IF m \in DOMAIN MODEL_LIMITS THEN MODEL_LIMITS[m] ELSE 3)

\* every call has terminated, one by exhausting its retries after running
\* on an upgrade target, one with another outcome
C2_Witness ==
  /\ \A c \in DOMAIN calls : calls[c].pc = "done"
  /\ \E c \in DOMAIN calls : calls[c].error_code = "MAX_RETRIES_EXCEEDED"
  /\ \E c \in DOMAIN calls : calls[c].error_code # "MAX_RETRIES_EXCEEDED"
  /\ text_model \in DOMAIN semaphores /\ simple_text_model \in DOMAIN semaphores

\* C3: a logical gateway call makes at most 5 upstream invocations whatever
\* failures, upgrades and fallback occur; when its fifth invocation fails
\* the call ends, and it ends with MAX_RETRIES_EXCEEDED unless that last
\* error is itself not retryable; MAX_RETRIES_EXCEEDED is raised only after
\* five failed invocations.
C3_RetryBudget ==
  [][\A c \in DOMAIN calls :
       /\ calls'[c].invocations <= 5
       /\ (calls[c].pc = "running" /\ calls[c].invocations = 5 /\ calls'[c] # calls[c]) =>
            /\ calls'[c].pc = "done"
            /\ \/ calls'[c].error_code = "none"
               \/ /\ calls'[c].error_code = "UNRETRYABLE"
                  /\ calls'[c].message[1] \notin {"429", "1302", "500", "502", "503", "504"}
               \/ calls'[c].error_code = "MAX_RETRIES_EXCEEDED"
       /\ (calls'[c].error_code = "MAX_RETRIES_EXCEEDED" /\ calls[c].pc # "done") =>
            /\ calls[c].invocations = 5
            /\ calls'[c].message[1] = 5
     ]_vars

\* a call has given up after its fifth failure
C3_Witness ==
  \E c \in DOMAIN calls :
    calls[c].pc = "done" /\ calls[c].error_code = "MAX_RETRIES_EXCEEDED"

\* C4: when a gateway call completes (in these runs every response carries a
\* usage block and every ledger write succeeds), exactly one row is added to
\* the usage ledger and its model is the concrete model the call ran on.
C4_LedgerNamesConcreteModel ==
  [][\A c \in DOMAIN calls :
       (calls[c].pc = "running" /\ calls'[c].pc = "done" /\ calls'[c].error_code = "none") =>
         ledger' = [ledger EXCEPT ![calls[c].actual_model] = @ + 1]
     ]_vars

(***************************************************************************)
(* Properties of the ingestion pipeline                                    *)
(***************************************************************************)
\* where the handler of a validated request is, in the order of the phases
PhaseRank(pc) ==
  CASE pc = "classify" -> 1 [] pc = "extract" -> 2 [] pc = "save_image" -> 3
    [] pc = "tags" -> 4 [] pc = "score" -> 5 [] pc = "persist" -> 6 [] OTHER -> 0
Answered(r) == r.status \in {"200", "result"}

C6_CategoryInEnum ==
  \A id \in DOMAIN life_stream :
    life_stream[id].category # None /\ life_stream[id].category \in Category

\* a photo of food was committed under MOOD: the extraction failed twice and
\* neither the hint nor the classifier's suggestion named a category
C6_Witness ==
  \E id \in DOMAIN life_stream :
    /\ life_stream[id].category = "MOOD"
    /\ life_stream[id].image_type = "food"
    /\ life_stream[id].raw_content = "content hint"
    /\ life_stream[id].ai_insight = "recorded, analysis unavailable"

\* C7: every value of the dimension_scores of a committed row lies in
\* [0, 100], whether the scores came from the extractor or from the rules
\* scorer, and also after a regeneration of the row.
C7_ScoresInRange ==
  \A id \in DOMAIN life_stream :
    \A dim \in DOMAIN life_stream[id].dimension_scores :
      /\ 0 <= life_stream[id].dimension_scores[dim]
      /\ life_stream[id].dimension_scores[dim] <= Points(100)

\* after a regeneration, a night of good sleep tagged as energetic has its
\* body score at the upper end, where the rules scorer cut it
C7_Witness ==
  \E id \in DOMAIN life_stream :
    /\ regenerated > 0
    /\ life_stream[id].category = "SLEEP"
    /\ life_stream[id].meta_data = GoodBag
    /\ \E i \in DOMAIN life_stream[id].tags : life_stream[id].tags[i] = Tag("body", "energetic")
    /\ DOMAIN life_stream[id].dimension_scores = DIMENSIONS
    /\ life_stream[id].dimension_scores["body"] = Points(100)
    /\ life_stream[id].dimension_scores["meaning"] > 0

\* re.fullmatch("#[^/]+/[^/]+", tag) on a tag held as its pieces
TagMatches(tag) ==
  /\ Len(tag) >= 4
  /\ tag[1] = "#"
  /\ \E i \in 3..(Len(tag) - 1) :
        tag[i] = "/" /\ \A j \in 2..Len(tag) : j # i => tag[j] # "/"

\* C8: every committed row has at most 8 tags and every one of its tags
\* matches #[^/]+/[^/]+, including the tags returned by the AI tagger and
\* the tags written by a regeneration.
C8_TagsWellFormed ==
  \A id \in DOMAIN life_stream :
    /\ Len(life_stream[id].tags) <= 8
    /\ \A i \in DOMAIN life_stream[id].tags : TagMatches(life_stream[id].tags[i])

\* C9: every committed row with a record_time has it at most one day after
\* the instant of its submission, whatever time string the extractor's model
\* returns.
C9_RecordTimeNotInFuture ==
  \A id \in DOMAIN life_stream :
    life_stream[id].record_time # NoTime =>
      life_stream[id].record_time <= life_stream[id].created_at + Day

(***************************************************************************)
(* Properties of the streaming chat endpoint                               *)
(***************************************************************************)
\* the messages of a role in the table
Persisted(table, role) == Len(SelectSeq(table, LAMBDA m : m.role = role))
\* the client received a final event that reports a failure
ErrorEmitted(s) ==
  \E i \in DOMAIN s.events :
    /\ s.events[i].kind = "chunk"
    /\ s.events[i].data.done /\ s.events[i].data.content # <<>>
Streaming(s) == s.pc \in {"iterating", "yield_meta", "yield_chunk"}

\* C10: for every utterance received by the streaming chat endpoint exactly
\* one user message is persisted (when the utterance is received, none
\* later) and at most one assistant message is persisted (when its stream
\* ends, none before); when no assistant message is persisted, the stream
\* emitted an error and the accumulated reply was empty.
C10_OneUserAtMostOneAssistant ==
  [][\A u \in DOMAIN streams :
       streams'[u] # streams[u] =>
         /\ streams[u].pc = "idle" =>
               /\ Persisted(chat_message', "user") = Persisted(chat_message, "user") + 1
               /\ Persisted(chat_message', "assistant") = Persisted(chat_message, "assistant")
         /\ Streaming(streams[u]) =>
               /\ Persisted(chat_message', "user") = Persisted(chat_message, "user")
               /\ Persisted(chat_message', "assistant") \in
                     {Persisted(chat_message, "assistant"),
                      Persisted(chat_message, "assistant") + 1}
         /\ (Streaming(streams[u]) /\ ~Streaming(streams'[u])) =>
               \/ Persisted(chat_message', "assistant") = Persisted(chat_message, "assistant") + 1
               \/ ErrorEmitted(streams'[u]) /\ streams'[u].accumulated = <<>>
         /\ (Streaming(streams[u]) /\ Streaming(streams'[u])) =>
               chat_message' = chat_message
    ]_vars

\* C10, amended: for every utterance the endpoint accepts exactly one user
\* message is persisted, before the stream starts, and at most one
\* assistant message, when the stream ends; when no assistant message is
\* persisted, the accumulated reply was empty or saving it failed. An
\* utterance the endpoint rejects (404, or a failing commit) persists at
\* most one user message and no assistant message.
C10_Amended ==
  [][\A u \in DOMAIN streams :
       streams'[u] # streams[u] =>
         /\ (streams[u].pc = "idle" /\ Streaming(streams'[u])) =>
               /\ Persisted(chat_message', "user") = Persisted(chat_message, "user") + 1
               /\ Persisted(chat_message', "assistant") = Persisted(chat_message, "assistant")
         /\ (streams[u].pc = "idle" /\ ~Streaming(streams'[u])) =>
               /\ streams'[u].status \in {"404", "500"}
               /\ Persisted(chat_message', "user") \in
                     {Persisted(chat_message, "user"), Persisted(chat_message, "user") + 1}
               /\ Persisted(chat_message', "assistant") = Persisted(chat_message, "assistant")
         /\ Streaming(streams[u]) =>
               /\ Persisted(chat_message', "user") = Persisted(chat_message, "user")
               /\ Persisted(chat_message', "assistant") \in
                     {Persisted(chat_message, "assistant"),
                      Persisted(chat_message, "assistant") + 1}
         /\ (Streaming(streams[u]) /\ ~Streaming(streams'[u])) =>
               \/ /\ Persisted(chat_message', "assistant") = Persisted(chat_message, "assistant") + 1
                  /\ chat_message'[Len(chat_message')] =
                       ChatMessage(streams[u].conversation_id, "assistant",
                                   streams[u].accumulated)
               \/ /\ chat_message' = chat_message
                  /\ \/ streams'[u].accumulated = <<>>
                     \/ streams'[u].log = "save failed"
         /\ (Streaming(streams[u]) /\ Streaming(streams'[u])) =>
               chat_message' = chat_message
    ]_vars

\* two streams have ended in one conversation: one client went away after
\* the first token and its partial reply was saved; the other went away
\* before any token, so that nothing was saved and no error was emitted
C10_Witness ==
  \E u, v \in DOMAIN streams :
    /\ streams[u].pc = "closed" /\ streams[v].pc = "closed"
    /\ streams[u].conversation_id = streams[v].conversation_id
    /\ ~streams[u].finished /\ streams[u].accumulated = <<Tokens[1]>>
    /\ streams[u].log = "saved"
    /\ streams[v].accumulated = <<>> /\ ~ErrorEmitted(streams[v])
    /\ Persisted(chat_message, "user") = 2
    /\ Persisted(chat_message, "assistant") = 1

\* the user message of stream s is in the table
UserMessageSaved(table, s) ==
  \E i \in DOMAIN table : table[i] = ChatMessage(s.conversation_id, "user", <<s.message>>)

\* C11: within one streaming chat exchange the user message is committed
\* strictly before the first token is requested from the model, and the
\* assistant message is committed strictly after the token stream has
\* ended (by completion, upstream error or client disconnect): it is added
\* by the very step that ends the stream, after which nothing more is
\* requested.
C11_UserBeforeTokensAssistantAfter ==
  [][\A u \in DOMAIN streams :
       streams'[u] # streams[u] =>
         /\ streams[u].pc # "closed"
         /\ streams[u].pc = "iterating" => UserMessageSaved(chat_message, streams[u])
         /\ (streams'[u].produced # streams[u].produced
               \/ streams'[u].finished # streams[u].finished) =>
               streams[u].pc = "iterating"
         /\ Persisted(chat_message', "assistant") # Persisted(chat_message, "assistant") =>
               /\ Streaming(streams[u]) /\ streams'[u].pc = "closed"
               /\ UserMessageSaved(chat_message, streams[u])
               /\ chat_message'[Len(chat_message')].role = "assistant"
               /\ SubSeq(chat_message', 1, Len(chat_message)) = chat_message
    ]_vars

\* two streams have ended with their replies saved behind the user
\* messages: one by completion, one cut by the client after an
\* upstream error had ended the generation
C11_Witness ==
  \E u, v \in DOMAIN streams :
    /\ streams[u].pc = "closed" /\ streams[v].pc = "closed"
    /\ streams[u].finished /\ streams[u].chunk = Chunk(<<>>, TRUE)
    /\ streams[u].log = "saved"
    /\ streams[v].finished /\ streams[v].chunk = GenerationFailed
    /\ streams[v].pc = "closed" /\ streams[v].log = "saved"
    /\ Len(streams[v].events) < streams[v].produced + 2
    /\ Persisted(chat_message, "assistant") = 2

\* the token deltas stream_and_persist has yielded so far: those the
\* client received and the one being yielded
Streamed(s) ==
  LET RECURSIVE Sent(_)
      Sent(n) == IF n = 0 THEN <<>>
                 ELSE Sent(n - 1)
                        \o (IF s.events[n].kind = "chunk" /\ ~s.events[n].data.done
                              THEN s.events[n].data.content ELSE <<>>) IN
  Sent(Len(s.events))
    \o (IF s.pc = "yield_chunk" /\ ~s.chunk.done THEN s.chunk.content ELSE <<>>)

Deleted(record_id) ==
  record_id \in DOMAIN life_stream /\ life_stream[record_id].is_deleted

\* C13: after DELETE /feed/{id} has succeeded, the record is absent from
\* every later GET /feed/history response and every later GET /feed/{id}
\* for that id returns 404.
C13_DeletedRecordGone ==
  /\ response.op = "history" =>
       \A i \in DOMAIN response.ids : ~Deleted(response.ids[i])
  /\ (response.op = "detail" /\ Deleted(response.id)) => response.status = "404"

\* C14: after DELETE /feed/{id}, the vector collection eventually holds no
\* entry keyed by that record id, however the delete interleaves with the
\* record's own post-commit indexing and with the start-up reconciliation,
\* the operations of the vector store all succeeding.
C14_DeletedEntryEventuallyGone ==
  \A record_id \in RecordIds :
    Deleted(record_id) ~> (record_id \notin collection)

\* C15: with a deterministic upstream, regeneration is idempotent: when a
\* regeneration has succeeded, running it a second time with the same
\* phases, at the same time of day and with the same answers of the tagger
\* and the extractor leaves every field of the record as the first run left it.
C15_RegenerationIdempotent ==
  [][\A record_id \in DOMAIN life_stream :
       (/\ regenerated' = regenerated + 1
        /\ response'.op = "regenerate" /\ response'.status = "200"
        /\ response'.id = record_id) =>
         \A phases \in SUBSET Phases \ {{}} :
           \A content \in (IF "tags" \in phases
                              THEN TaggerReplies ELSE {Content("error", <<>>)}) :
           \A afternoon \in (IF phases = {"ai_insight"} THEN {FALSE} ELSE BOOLEAN) :
             \A e \in (IF "ai_insight" \in phases
                         THEN RegeneratorOutcomes(life_stream[record_id].created_at)
                         ELSE {<<"mock", Json(None, NoScores, TimeString("absent", 0),
                                              PlainBag, None)>>}) :
               life_stream'[record_id] =
                   RegeneratedRecord(life_stream[record_id], phases, {}, content,
                                     afternoon, e[1], e[2])
                 => RegeneratedRecord(life_stream'[record_id], phases, {}, content,
                                      afternoon, e[1], e[2]) = life_stream'[record_id]
    ]_vars

\* the token was handed out by a login, logout was not called with it since
\* and its life time has not passed
ValidToken(token) ==
  /\ token \in DOMAIN sessions
  /\ ~sessions[token].logged_out
  /\ clock <= sessions[token].issued_at + TOKEN_EXPIRE_SECONDS
GuardedOps == {"regenerate", "delete", "visibility"}

\* C16: POST /feed/{id}/regenerate, DELETE /feed/{id} and PATCH
\* /feed/{id}/visibility take effect only when the request carries a token
\* that a successful login issued, that has not been logged out and has not
\* expired; any other request is answered with 401 and leaves the records
\* (and the vector collection) unchanged.
C16_MutationsNeedToken ==
  [][/\ (\E record_id \in DOMAIN life_stream :
            life_stream'[record_id] # life_stream[record_id]) => ValidToken(header')
     /\ (/\ response'.op \in GuardedOps
         /\ response' # response \/ header' # header
         /\ ~ValidToken(header')) =>
           /\ response'.status = "401"
           /\ life_stream' = life_stream
           /\ collection' = collection
    ]_vars

\* a record was published with a token that has expired since, and the
\* delete that carries the expired token is refused
C16_Witness ==
  /\ Len(life_stream) = 1 /\ life_stream[1].is_public /\ ~life_stream[1].is_deleted
  /\ response.op = "delete" /\ response.status = "401"
  /\ header \in DOMAIN sessions /\ ~sessions[header].logged_out
  /\ clock > sessions[header].issued_at + TOKEN_EXPIRE_SECONDS

RetryableTexts == {"429", "1302", "500", "502", "503", "504"}

\* C19: every failed attempt of a gateway call that is followed by another
\* attempt is followed by a backoff sleep of min(base * 2^k, 30) seconds,
\* k counting the failures before it and base being 5 s for 429/1302 and 1 s
\* for the other retryable errors (so 5 s, 10 s and 20 s before the 2nd, 3rd
\* and 4th attempt of a call that keeps failing with 429); and the response
\* returned is that of the invocation after the last failure.
C19_RateLimitBackoff ==
  [][\A c \in DOMAIN calls :
       LET f == calls[c]
           g == calls'[c] IN
       /\ (f.pc = "running" /\ f.kind \in GatewayKinds /\ faults' = faults + 1
             /\ g # f /\ g.pc # "done") =>
            /\ g.pc = "sleeping"
            /\ g.delay = Min((IF g.last_error \in {"429", "1302"} THEN 5 ELSE 1)
                               * 2^(g.total_attempts - 1), 30)
       /\ (f.pc = "running" /\ f.kind \in GatewayKinds /\ g.pc = "done"
             /\ g.error_code = "none") =>
            f.invocations = f.total_attempts + 1
     ]_vars

\* C20: a failed attempt of a gateway call is followed by another attempt
\* only if its error is one of 429, 1302, 500, 502, 503, 504; any other
\* error ends the call at once with UNRETRYABLE, without a sleep and without
\* a switch to the fallback model, and UNRETRYABLE is raised for no retryable
\* error.
C20_OnlyRetryableRetried ==
  [][\A c \in DOMAIN calls :
       LET f == calls[c]
           g == calls'[c] IN
       (f.pc = "running" /\ f.kind \in GatewayKinds /\ faults' = faults + 1 /\ g # f) =>
         /\ g.pc # "done" =>
              /\ g.last_error \in RetryableTexts
              /\ g.pc \in {"sleeping", "acquire1"}
              /\ g.total_attempts = f.total_attempts + 1
         /\ (g.pc = "done" /\ g.error_code = "UNRETRYABLE") =>
              g.message[1] \notin RetryableTexts
         /\ (g.pc = "done" /\ g.error_code # "UNRETRYABLE") =>
              /\ g.error_code = "MAX_RETRIES_EXCEEDED"
              /\ g.message[2] \in RetryableTexts
     ]_vars

\* a call has ended on an error that is not retried while another call, whose
\* error was retried, sleeps or has gone on
C20_Witness ==
  /\ \E c \in DOMAIN calls :
       /\ calls[c].pc = "done"
       /\ calls[c].error_code = "UNRETRYABLE"
       /\ calls[c].message = <<"401">>
  /\ \E c \in DOMAIN calls :
       calls[c].pc \in {"sleeping", "acquire1", "running"} /\ calls[c].last_error = "429"

\* the calls that hold a permit of model m
Holders(cs, m) ==
  {c \in DOMAIN cs : cs[c].pc \in {"running", "sleeping"} /\ cs[c].actual_model = m}

\* C18 as stated: of five concurrent calls that ask for the flash text model
\* and meet no upstream failure, none ends with CONCURRENCY_LIMIT, and while
\* one runs on the flash model and three run on the premium model the call
\* that is left waits for a permit of the flash model.
C18_BurstOfFive ==
  faults = 0 =>
    /\ \A c \in DOMAIN calls : calls[c].error_code # "CONCURRENCY_LIMIT"
    /\ (/\ Cardinality(Holders(calls, simple_text_model)) = 1
        /\ Cardinality(Holders(calls, text_model)) = 3) =>
         \A c \in DOMAIN calls :
           calls[c].pc \notin {"idle", "done", "running", "sleeping"} =>
             calls[c].pc \in {"acquire1", "acquire2"}

\* C18 amended: at most one of the calls holds a permit of the flash model
\* and at most three hold one of the premium model; a call runs on the flash
\* model or, only when its wait on the flash model found no permit free, waits
\* on the premium model; it runs there or, only when no premium permit was
\* free either, waits on the flash model again; it ends with
\* CONCURRENCY_LIMIT only out of that last wait, with no flash permit free;
\* and while the upstream has not failed a call ends in no other error.
C18_BurstAcquire ==
  [][/\ Cardinality(Holders(calls', simple_text_model)) <= 1
     /\ Cardinality(Holders(calls', text_model)) <= 3
     /\ \A c \in DOMAIN calls :
          LET f == calls[c]
              g == calls'[c] IN
          /\ (f.pc = "acquire1" /\ g # f) =>
               \/ g.pc = "running" /\ g.actual_model = simple_text_model
               \/ g.pc = "acquireUp" /\ semaphores[simple_text_model] = 0
          /\ (f.pc = "acquireUp" /\ g # f) =>
               \/ g.pc = "running" /\ g.actual_model = text_model
               \/ g.pc = "acquire2" /\ semaphores[text_model] = 0
          /\ (f.pc = "acquire2" /\ g # f) =>
               \/ g.pc = "running" /\ g.actual_model = simple_text_model
               \/ /\ g.pc = "done"
                  /\ g.error_code = "CONCURRENCY_LIMIT"
                  /\ semaphores[simple_text_model] = 0
          /\ (g.error_code = "CONCURRENCY_LIMIT" /\ g # f) => f.pc = "acquire2"
          /\ (faults' = 0 /\ g.pc = "done") =>
               g.error_code \in {"none", "CONCURRENCY_LIMIT"}
    ]_vars

\* one call runs on the flash model, three were promoted to the premium
\* model and the fifth waits for a premium permit; nothing has failed
C18_Witness ==
  /\ faults = 0
  /\ Cardinality(Holders(calls, simple_text_model)) = 1
  /\ Cardinality(Holders(calls, text_model)) = 3
  /\ \E c \in DOMAIN calls : calls[c].pc = "acquireUp"
  /\ \A c \in DOMAIN calls : calls[c].pc \notin {"idle", "done"}

(***************************************************************************)
(* Properties of the tagger, the regeneration and the limiter's protocol   *)
(***************************************************************************)
\* C21: whatever text, category and hour a request brings to the tagging
\* phase, generate_tags answers a failed AI call with a list, the one
\* _rule_based_tags gives, and that list starts with the time tag of the hour
\* and has at most six tags.
C21_TaggerFallsBack ==
  feed.pc = "tags" =>
    \A content \in TaggerReplies :
      content.kind = "error" =>
        LET tags == generate_tags(content, feed.text, feed.category, feed.afternoon) IN
          /\ tags = _rule_based_tags(feed.text, feed.category, feed.afternoon)
          /\ Len(tags) \in 1..6
          /\ \E i \in DOMAIN tags : tags[i] = Tag("time", _get_time_period(feed.afternoon))

\* the tagging phase has ended with the rule-based tags of a text full of
\* keywords (cut to six) and tags is not a failed phase
C21_Witness ==
  /\ feed.pc = "score"
  /\ feed.text = "keywords"
  /\ feed.tags = _rule_based_tags(feed.text, feed.category, feed.afternoon)
  /\ Len(feed.tags) = 6
  /\ \A i \in DOMAIN feed.failed_phases : feed.failed_phases[i] # "tags"

\* the members of a sequence
Range(seq) == {seq[i] : i \in DOMAIN seq}

Acquiring == {"acquire1", "acquireUp", "acquire2"}

\* C23: acquire_with_upgrade waits on the requested model first; when that
\* wait times out it waits on the upgrade target if, and only if, the
\* requested model has an entry in the upgrade map; when there is none or
\* that wait times out too it waits on the requested model again, and when
\* this last wait times out it reports failure. It reports success with the
\* model it waited on last, the requested one or its upgrade target, and the
\* step that does so takes exactly one permit, of that model; a wait that
\* times out takes none, so a failure is reported with no permit held.
C23_AcquireWithUpgrade ==
  [][\A c \in DOMAIN calls :
       LET f == calls[c]
           g == calls'[c]
           has_upgrade == f.requested_model \in DOMAIN UPGRADE_MAP
           waited_on == IF f.pc = "acquireUp" THEN UPGRADE_MAP[f.requested_model]
                        ELSE f.requested_model IN
       (f.pc \in Acquiring /\ g # f) =>
         /\ f.pc = "acquireUp" => has_upgrade
         /\ \/ /\ g.pc = "running"
               /\ g.actual_model = waited_on
               /\ g.requested_model = f.requested_model
               /\ semaphores' = [semaphores EXCEPT ![waited_on] = @ - 1]
               /\ semaphores'[waited_on] >= 0
            \/ /\ f.pc = "acquire1"
               /\ g.pc = IF has_upgrade THEN "acquireUp" ELSE "acquire2"
               /\ \A m \in DOMAIN semaphores : semaphores'[m] = semaphores[m]
            \/ /\ f.pc = "acquireUp"
               /\ g.pc = "acquire2"
               /\ semaphores' = semaphores
            \/ /\ f.pc = "acquire2"
               /\ g.pc = "done"
               /\ g.error_code = "CONCURRENCY_LIMIT"
               /\ semaphores' = semaphores
         /\ g.pc \in Acquiring => g.actual_model = NoModel
    ]_vars

\* one call runs on the upgrade target of the model it asked for and
\* another call was told that no permit could be had
C23_Witness ==
  /\ \E c \in DOMAIN calls :
       /\ calls[c].pc = "running"
       /\ calls[c].requested_model \in DOMAIN UPGRADE_MAP
       /\ calls[c].actual_model = UPGRADE_MAP[calls[c].requested_model]
  /\ \E c \in DOMAIN calls :
       calls[c].pc = "done" /\ calls[c].error_code = "CONCURRENCY_LIMIT"

\* C24: a call that waits between two attempts holds no permit: the permit
\* of the failed attempt is free again when the backoff sleep begins, so the
\* free permits of every model are its limit minus the invocations in flight
\* on it.
C24_NoPermitWhileWaiting ==
  /\ \A c \in DOMAIN calls :
       calls[c].pc = "sleeping" =>
         semaphores[calls[c].actual_model] + InFlight(calls[c].actual_model)
           = Limit(calls[c].actual_model)
  /\ \A m \in DOMAIN semaphores :
       (\A c \in DOMAIN calls : calls[c].pc # "sleeping") =>
         semaphores[m] + InFlight(m) = Limit(m)

\* C25: the model a call asks permits for changes only when an attempt has
\* failed, the call has not fallen back before, at least two of its attempts
\* have failed, fallback is allowed (never for an embedding call) and the
\* model is a premium one; the new model is the flash model of its family;
\* after that the call keeps asking for this model until it ends.
C25_FallbackAtMostOnce ==
  [][\A c \in DOMAIN calls :
       LET f == calls[c]
           g == calls'[c] IN
       (Live(c) /\ g.pc \notin {"idle", "done"}) =>
         /\ g.requested_model # f.requested_model =>
              /\ f.pc = "running"
              /\ ~f.has_fallen_back /\ g.has_fallen_back
              /\ g.total_attempts >= 2
              /\ f.allow_fallback
              /\ f.kind # "embed"
              /\ \/ f.requested_model = "glm-4.6v" /\ g.requested_model = "glm-4.6v-flash"
                 \/ f.requested_model = "glm-4.7" /\ g.requested_model = "glm-4.7-flash"
         /\ f.has_fallen_back =>
              g.has_fallen_back /\ g.requested_model = f.requested_model
         /\ g.has_fallen_back # f.has_fallen_back =>
              g.requested_model # f.requested_model
         /\ g.kind = "embed" => ~g.has_fallen_back /\ g.requested_model = embedding_model
    ]_vars

\* a call that fell back after its second failure has failed again on the
\* flash model and still asks for it, and an embedding call failed twice and
\* still asks for the embedding model
C25_Witness ==
  /\ \E c \in DOMAIN calls :
       /\ calls[c].has_fallen_back
       /\ calls[c].total_attempts >= 3
       /\ calls[c].model = smart_model
       /\ calls[c].requested_model = simple_text_model
  /\ \E c \in DOMAIN calls :
       /\ calls[c].kind = "embed"
       /\ calls[c].total_attempts >= 2
       /\ calls[c].pc \in {"sleeping", "acquire1", "running"}

(***************************************************************************)
(* Properties of the failure paths of the ingestion                        *)
(***************************************************************************)
\* the category C26 names for a record whose extraction failed twice: the
\* one category_hint names, else the one the classifier suggested, else MOOD
HintThenSuggestionThenMood(f) ==
  IF Category_value(f.category_hint) # None THEN Category_value(f.category_hint)
  ELSE IF f.classification_result.present
            /\ Category_value(f.classification_result.category_suggestion) # None
         THEN Category_value(f.classification_result.category_suggestion)
  ELSE "MOOD"

C27_IndexFailureListed ==
  [][(/\ feed.pc \in {"persist", "index"}
      /\ feed'.pc = "idle"
      /\ response'.status \in {"200", "result"}) =>
       /\ response'.id \in DOMAIN life_stream'
       /\ ~life_stream'[response'.id].is_deleted =>
            life_stream'[response'.id] = LifeStream(feed)
       /\ response'.id \notin collection' =>
            "rag_index" \in Range(response'.failed_phases)
    ]_vars

\* C28: when the classification of the image has failed, whether the
\* classifier caught the failure itself or let it out, the phase ends with
\* image_type "other" and should_save_image true and adds nothing to
\* failed_phases, and after the extraction the image goes to the save-image
\* phase.
C28_ClassifierFailureKeepsImage ==
  [][/\ (feed.pc = "classify" /\ feed' # feed /\ feed'.classifier # "ai") =>
          /\ feed'.image_type = "other"
          /\ feed'.should_save_image
          /\ feed'.failed_phases = feed.failed_phases
          /\ feed'.pc = "extract"
     /\ (feed.pc = "extract" /\ feed.has_image /\ feed.classifier # "ai"
           /\ feed'.pc # "extract" /\ feed' # feed) =>
          feed'.pc = "save_image"
    ]_vars

(***************************************************************************)
(* Starts of the process over the stores earlier runs left behind          *)
(***************************************************************************)
\* rows in the LifeStream table when the process starts
MaxStored == 3
\* a row an earlier run committed, deleted since or not
StoredRow(is_deleted) == [LifeStream(IdleFeed) EXCEPT !.is_deleted = is_deleted]
StoredTables ==
  UNION {[1..n -> {StoredRow(TRUE), StoredRow(FALSE)}] : n \in 0..MaxStored}

\* the table and the vector collection are on disk and outlive the process:
\* every record was indexed or not (phase 7 is best effort), and a deleted
\* record has lost its entry or kept it (so is the removal)
InitStartup ==
  /\ InitCalls(0) /\ InitChat /\ InitRecords
  /\ feed = IdleFeed
  /\ response = NoResponse
  /\ served = 0
  /\ regenerated = 0
  /\ sse = NoEvents
  /\ life_stream \in StoredTables
  /\ collection \in SUBSET (DOMAIN life_stream)
Discard ==
  /\ \E record_id \in 1..MaxStored : \E commit_ok \in BOOLEAN : \E rag \in RagOutcomes :
       delete_record(record_id, commit_ok, rag)
  /\ UNCHANGED <<gwvars, chatvars, recvars>>
NextStartup == Discard \/ RestartIndexed
SpecStartup == InitStartup /\ [][NextStartup]_vars

\* ids of the rows that are not deleted
NonDeleted(rows) == {i \in DOMAIN rows : ~rows[i].is_deleted}

\* C29: when the process starts (the vector store working) and there are
\* records that are not deleted, the full re-index runs exactly when the
\* entries of the collection are fewer than 0.95 times the records that are
\* not deleted, and it upserts every such record; otherwise the collection is
\* left as it is.
C29_ReindexBelowCoverage ==
  [][(restarts' = restarts + 1 /\ NonDeleted(life_stream) # {}) =>
       collection' =
         IF Cardinality(collection) * 100 < 95 * Cardinality(NonDeleted(life_stream))
           THEN collection \cup NonDeleted(life_stream)
           ELSE collection
    ]_vars

====
